---- MODULE Spec2Model ----
(***************************************************************************)
(* OMAP Pathfinding Processor: the segment orchestrator                    *)
(* (PathfindingLogic::processAndFindPath), the obstacle-cost parser and    *)
(* the calculation life cycle of the main window.                          *)
(*                                                                         *)
(* Text is modelled as a sequence of one-character strings; positions are  *)
(* 0-based as in std::string, and NPOS plays std::string::npos.            *)
(***************************************************************************)
EXTENDS Integers, Sequences, FiniteSets, TLC

\* ------------------------------------------------------------------ bounds
MaxTextTokens == 4
MaxGridWidth == 2
MaxGridHeight == 1
MaxWaypoints == 3
MaxSegLen == 2
MaxRuns == 2
MaxSearchWidth == 3
MaxSearchHeight == 2
MaxRough == 2
MaxCell == 2
MaxSaves == 1
MaxOffset == 9

\* --------------------------------------------------------- std::string ops
NPOS == -1

Min(a, b) == IF a < b THEN a ELSE b

find_first_not_of(s, set) ==
    IF \E k \in 1..Len(s) : s[k] \notin set
    THEN (CHOOSE k \in 1..Len(s) :
              s[k] \notin set /\ \A j \in 1..(k - 1) : s[j] \in set) - 1
    ELSE NPOS

find_last_not_of(s, set) ==
    IF \E k \in 1..Len(s) : s[k] \notin set
    THEN (CHOOSE k \in 1..Len(s) :
              s[k] \notin set /\ \A j \in (k + 1)..Len(s) : s[j] \in set) - 1
    ELSE NPOS

find(s, ch) ==
    IF \E k \in 1..Len(s) : s[k] = ch
    THEN (CHOOSE k \in 1..Len(s) :
              s[k] = ch /\ \A j \in 1..(k - 1) : s[j] # ch) - 1
    ELSE NPOS

\* s.erase(0, n): drops the first n characters, all of them when n is npos.
erase_front(s, n) ==
    IF n = NPOS THEN << >> ELSE SubSeq(s, Min(n, Len(s)) + 1, Len(s))

\* s.erase(pos): keeps the first pos characters.
erase_from(s, pos) == SubSeq(s, 1, Min(pos, Len(s)))

\* s.substr(pos, n) and s.substr(pos)
substr(s, pos, n) == SubSeq(s, pos + 1, Min(pos + n, Len(s)))
substr_from(s, pos) == SubSeq(s, pos + 1, Len(s))

\* std::getline over the whole stream: the lines between '\n' characters; a
\* final '\n' ends the last line and starts no further one.
RECURSIVE getlines(_)
getlines(text) ==
    IF text = << >> THEN << >>
    ELSE LET nl == find(text, "\n") IN
         IF nl = NPOS THEN << text >>
         ELSE << substr(text, 0, nl) >> \o getlines(substr_from(text, nl + 1))

\* ---------------------------------------------------------------- std::stof
Digits == {"0", "1", "2", "3", "4", "5", "6", "7", "8", "9"}
DigitVal(c) == CHOOSE d \in 0..9 : ToString(d) = c
IsSpace == {" ", "\t", "\n", "\r"}

RECURSIVE DigitRun(_, _)
\* the number of leading digits of s from 1-based position p
DigitRun(s, p) ==
    IF p <= Len(s) /\ s[p] \in Digits THEN 1 + DigitRun(s, p + 1) ELSE 0

RECURSIVE DecValue(_)
DecValue(ds) ==
    IF ds = << >> THEN 0
    ELSE 10 * DecValue(SubSeq(ds, 1, Len(ds) - 1)) + DigitVal(ds[Len(ds)])

RECURSIVE NumDigits(_)
NumDigits(n) == IF n < 10 THEN 1 ELSE 1 + NumDigits(n \div 10)

\* A float is kept exactly as mant * 10^exp10 with mant not a multiple of 10
\* (zero is mant = 0, exp10 = 0), so that equal values are equal records.
RECURSIVE Canon(_, _)
Canon(mant, e) ==
    IF mant = 0 THEN [mant |-> 0, exp10 |-> 0]
    ELSE IF mant % 10 = 0 THEN Canon(mant \div 10, e + 1)
    ELSE [mant |-> mant, exp10 |-> e]

Finite(neg, mant, e) ==
    LET c == Canon(mant, e) IN
    [cls |-> "finite", neg |-> neg, mant |-> c.mant, exp10 |-> c.exp10]
Infinite(neg) == [cls |-> "inf", neg |-> neg, mant |-> 0, exp10 |-> 0]
NotANumber(neg) == [cls |-> "nan", neg |-> neg, mant |-> 0, exp10 |-> 0]

\* decimal order of magnitude of a finite non-zero value
Magnitude(v) == NumDigits(v.mant) + v.exp10

HasPrefixAt(s, p, w) ==
    /\ p + Len(w) - 1 <= Len(s)
    /\ \A k \in 1..Len(w) : s[p + k - 1] = w[k]

\* std::stof(str): skips leading white space, converts the longest prefix
\* that is a float literal and ignores what follows it; throws
\* std::invalid_argument when no conversion is possible and
\* std::out_of_range when the value does not fit a float.  The conversion is
\* written as the stages of the scan, each handing its positions to the next.
\* FLT_MAX is about 3.4e38, the smallest normal float about 1.2e-38.
StofResult(nDigits, v) ==
    IF nDigits = 0
    THEN [status |-> "invalid_argument", value |-> Finite(FALSE, 0, 0)]
    ELSE IF v.mant # 0 /\ (Magnitude(v) > 39 \/ Magnitude(v) < -38)
    THEN [status |-> "out_of_range", value |-> v]
    ELSE [status |-> "ok", value |-> v]

\* the exponent digits from p3, nExp of them, negative when eNeg
StofValue(str, neg, p1, nInt, dot, nFrac, p3, nExp, eNeg) ==
    StofResult(nInt + nFrac,
               Finite(neg,
                      DecValue(SubSeq(str, p1, p1 + nInt - 1)
                               \o (IF dot
                                   THEN SubSeq(str, p1 + nInt + 1, p1 + nInt + nFrac)
                                   ELSE << >>)),
                      (IF nExp = 0 THEN 0
                       ELSE (IF eNeg THEN -1 ELSE 1)
                            * DecValue(SubSeq(str, p3, p3 + nExp - 1)))
                      - nFrac))

StofExpDigits(str, neg, p1, nInt, dot, nFrac, hasE, p3, eNeg) ==
    StofValue(str, neg, p1, nInt, dot, nFrac, p3,
              IF hasE THEN DigitRun(str, p3) ELSE 0, eNeg)

StofExpSign(str, neg, p1, nInt, dot, nFrac, p2, hasE) ==
    LET eSgn == hasE /\ p2 + 1 <= Len(str) /\ str[p2 + 1] \in {"-", "+"}
    IN  StofExpDigits(str, neg, p1, nInt, dot, nFrac, hasE,
                      IF eSgn THEN p2 + 2 ELSE p2 + 1,
                      eSgn /\ str[p2 + 1] = "-")

\* p2 is the position after the mantissa
StofExponent(str, neg, p1, nInt, dot, nFrac, p2) ==
    StofExpSign(str, neg, p1, nInt, dot, nFrac, p2,
                p2 <= Len(str) /\ str[p2] \in {"e", "E"})

StofFraction(str, neg, p1, nInt, dot, nFrac) ==
    StofExponent(str, neg, p1, nInt, dot, nFrac,
                 p1 + nInt + (IF dot /\ nInt + nFrac > 0 THEN 1 + nFrac ELSE 0))

StofDot(str, neg, p1, nInt, dot) ==
    StofFraction(str, neg, p1, nInt, dot,
                 IF dot THEN DigitRun(str, p1 + nInt + 1) ELSE 0)

StofInteger(str, neg, p1, nInt) ==
    StofDot(str, neg, p1, nInt,
            p1 + nInt <= Len(str) /\ str[p1 + nInt] = ".")

\* p1 is the position after the optional sign
StofMantissa(str, neg, p1) ==
    IF HasPrefixAt(str, p1, <<"i", "n", "f">>)
    THEN [status |-> "ok", value |-> Infinite(neg)]
    ELSE IF HasPrefixAt(str, p1, <<"n", "a", "n">>)
    THEN [status |-> "ok", value |-> NotANumber(neg)]
    ELSE StofInteger(str, neg, p1, DigitRun(str, p1))

\* p0 is the position of the first character that is not white space
StofSign(str, p0) ==
    LET sgn == p0 <= Len(str) /\ str[p0] \in {"-", "+"}
    IN  StofMantissa(str, sgn /\ str[p0] = "-", IF sgn THEN p0 + 1 ELSE p0)

StofSkipSpace(str, ws) ==
    StofSign(str, IF ws = NPOS THEN Len(str) + 1 ELSE ws + 1)

stof(str) == StofSkipSpace(str, find_first_not_of(str, IsSpace))

\* ------------------------------------------- MainWindow::parseObstacleCosts
\* configMap[codeStr] = value
MapPut(m, code, v) ==
    [k \in DOMAIN m \cup {code} |-> IF k = code THEN v ELSE m[k]]

EmptyConfigMap == [k \in {} |-> 0]

\* a parser that takes each line as it is
NoTrim(line) == line

\* Trim whitespace (lines 1180-1181)
TrimLine(line) ==
    LET a == erase_front(line, find_first_not_of(line, IsSpace))
    IN  erase_from(a, find_last_not_of(a, IsSpace) + 1)

TrimField(f) ==
    LET a == erase_front(f, find_first_not_of(f, {" ", "\t"}))
    IN  erase_from(a, find_last_not_of(a, {" ", "\t"}) + 1)

\* One pass of the while loop body over the trimmed line: "skip" (continue),
\* "fail" (return false) or "put" (an entry is stored).
ParseLine(rawLine) ==
    LET line == TrimLine(rawLine)
        colonPos == find(line, ":")
        codeStr == TrimField(substr(line, 0, colonPos))
        valueStr == TrimField(substr_from(line, colonPos + 1))
        conv == stof(valueStr)
    IN  IF line = << >> \/ line[1] = "#" THEN [act |-> "skip"]
        ELSE IF colonPos = NPOS THEN [act |-> "fail"]
        ELSE IF codeStr = << >> THEN [act |-> "fail"]
        ELSE IF conv.status # "ok" THEN [act |-> "fail"]
        ELSE [act |-> "put", code |-> codeStr, value |-> conv.value]

RECURSIVE ParseLines(_, _)
ParseLines(lines, configMap) ==
    IF lines = << >> THEN [ok |-> TRUE, configMap |-> configMap]
    ELSE LET r == ParseLine(Head(lines)) IN
         IF r.act = "skip" THEN ParseLines(Tail(lines), configMap)
         ELSE IF r.act = "fail" THEN [ok |-> FALSE, configMap |-> configMap]
         ELSE ParseLines(Tail(lines), MapPut(configMap, r.code, r.value))

parseObstacleCosts(text) == ParseLines(getlines(text), EmptyConfigMap)

\* ----------------------------------------------------------- optional<T>
None == [has |-> FALSE]
Some(v) == [has |-> TRUE, val |-> v]

\* ------------------------------------------------- map, grid, normalization
\* The map documents of the model.  Each has a bounding rectangle in internal
\* units and one barrier feature, of symbol code BarrierCode, over one cell.
MapFiles == {"A.omap", "B.omap"}
BarrierCode == << "1" >>
MapBounds(map) == [min_x |-> 0, min_y |-> 0, max_x |-> 2000, max_y |-> 1000]
BarrierCells(map) == IF map = "A.omap" THEN {[x |-> 0, y |-> 0]}
                     ELSE {[x |-> 1, y |-> 0]}

One == Finite(FALSE, 1, 0)
MinusOne == Finite(TRUE, 1, 0)

toIndex(x, y, width) == y * width + x

\* MapProcessor::generateGrid(obstacleCosts): open terrain has multiplier 1,
\* a cell under a feature takes the multiplier the config gives its symbol.
GenerateGrid(map, w, h, costs) ==
    [width |-> w, height |-> h,
     cells |-> [idx \in 0..(w * h - 1) |->
                  IF /\ BarrierCode \in DOMAIN costs
                     /\ \E c \in BarrierCells(map) :
                            c.x < w /\ c.y < h /\ toIndex(c.x, c.y, w) = idx
                  THEN costs[BarrierCode] ELSE One]]

\* MapProcessor::getNormalizationResult()
Normalization(map, w, h) ==
    LET b == MapBounds(map) IN
    [valid |-> TRUE, min_x |-> b.min_x, min_y |-> b.min_y,
     resolution_x |-> (b.max_x - b.min_x) \div w,
     resolution_y |-> (b.max_y - b.min_y) \div h]

\* Grid_V3::inBounds
inBounds(grid, x, y) == 0 <= x /\ x < grid.width /\ 0 <= y /\ y < grid.height

\* a cell whose multiplier is the impassable sentinel -1
Impassable(grid, p) ==
    inBounds(grid, p.x, p.y) /\ grid.cells[toIndex(p.x, p.y, grid.width)] = MinusOne

\* ------------------------------------------------------- PathfindingUtils
\* A float of the cost arithmetic is kept in thousandths, as a whole number.
NUM_DIRECTIONS == 8
dx == << 1, 0, -1, 0, 1, -1, -1, 1 >>
dy == << 0, 1, 0, -1, 1, 1, -1, -1 >>
costs == << 1000, 1000, 1000, 1000, 1414, 1414, 1414, 1414 >>
HEURISTIC_EUCLIDEAN == 0
HEURISTIC_DIAGONAL == 1
HEURISTIC_MANHATTAN == 2
HEURISTIC_MIN_COST == 3

fabs(v) == IF v < 0 THEN 0 - v ELSE v

RECURSIVE RootBetween(_, _, _)
\* the largest r of lo..hi with r * r <= n
RootBetween(n, lo, hi) ==
    IF lo >= hi THEN lo
    ELSE CHOOSE r \in {IF mid * mid <= n
                       THEN RootBetween(n, mid, hi)
                       ELSE RootBetween(n, lo, mid - 1) :
                       mid \in {(lo + hi + 1) \div 2}} : TRUE
\* sqrtf of a whole number, in thousandths
sqrtf(n) == CHOOSE r \in {RootBetween(m * 1000000, 0, 1000 * m) : m \in {n}} : TRUE

euclidean_distance(x1, y1, x2, y2) ==
    sqrtf((x1 - x2) * (x1 - x2) + (y1 - y2) * (y1 - y2))

diagonal_distance(x1, y1, x2, y2) ==
    costs[1] * (fabs(x1 - x2) + fabs(y1 - y2))
    + (costs[5] - 2 * costs[1]) * Min(fabs(x1 - x2), fabs(y1 - y2))

manhattan_distance(x1, y1, x2, y2) == 1000 * (fabs(x1 - x2) + fabs(y1 - y2))

\* calculate_heuristic: the switch on heuristic_type, Euclidean by default
calculate_heuristic(x1, y1, x2, y2, heuristic_type) ==
    CASE heuristic_type = HEURISTIC_DIAGONAL -> diagonal_distance(x1, y1, x2, y2)
      [] heuristic_type = HEURISTIC_MANHATTAN -> manhattan_distance(x1, y1, x2, y2)
      [] heuristic_type = HEURISTIC_MIN_COST ->
            (diagonal_distance(x1, y1, x2, y2) * 8) \div 10
      [] OTHER -> euclidean_distance(x1, y1, x2, y2)

\* int division by a positive divisor: the quotient is truncated toward zero
TruncDiv(a, b) == IF a >= 0 \/ a % b = 0 THEN a \div b ELSE (a \div b) + 1

toCoordsTransposed(index, width) ==
    IF width <= 0 THEN [x |-> -1, y |-> -1]
    ELSE [x |-> TruncDiv(index, width),
          y |-> index - width * TruncDiv(index, width)]

toCoords(index, width) ==
    IF width <= 0 THEN [x |-> -1, y |-> -1]
    ELSE [x |-> index - width * TruncDiv(index, width),
          y |-> TruncDiv(index, width)]

\* ------------------------------------------------- cost model (spec 4.5)
\* +infinity of the g scores and edge costs
Infinity == 1000000000
\* the slope penalty exp(-3.5 * |0 + 0.05|) of a uniform elevation field
SlopePenaltyFlat == 839

RECURSIVE Scale10(_, _)
Scale10(m, e) ==
    IF e = 0 THEN m
    ELSE IF e > 0 THEN Scale10(m * 10, e - 1) ELSE Scale10(m \div 10, e + 1)
\* a cell's multiplier in thousandths
Multiplier(grid, c) == Scale10(grid.cells[c].mant, grid.cells[c].exp10 + 3)
Blocked(grid, c) == \E p \in {toCoords(c, grid.width)} : Impassable(grid, p)

\* cost(a -> b) over a distance given in thousandths of a cell
edge_cost(grid, a, b, distance_cells, log_cell_m) ==
    IF Blocked(grid, a) \/ Blocked(grid, b) THEN Infinity
    ELSE ((((distance_cells * log_cell_m) \div 1000)
           * ((Multiplier(grid, a) + Multiplier(grid, b)) \div 2))
          \div SlopePenaltyFlat)

\* the straight distance between two cells, in thousandths of a cell
StraightDistance(grid, a, b) ==
    euclidean_distance(toCoords(a, grid.width).x, toCoords(a, grid.width).y,
                       toCoords(b, grid.width).x, toCoords(b, grid.width).y)

\* the number of sub-segments of the line a -> b: the stride is at most a cell
Strides(grid, a, b) == (StraightDistance(grid, a, b) + 999) \div 1000

\* the cell under sample k of n on the line a -> b; a line of no length is
\* its one cell
SampleCell(grid, a, b, k, n) ==
    IF n = 0 THEN a
    ELSE toIndex((2 * (toCoords(a, grid.width).x * n
                       + k * (toCoords(b, grid.width).x
                              - toCoords(a, grid.width).x)) + n)
                   \div (2 * n),
                 (2 * (toCoords(a, grid.width).y * n
                       + k * (toCoords(b, grid.width).y
                              - toCoords(a, grid.width).y)) + n)
                   \div (2 * n),
                 grid.width)

line_of_sight(grid, a, b) ==
    \A p \in {a} : \A q \in {b} : \A n \in {Strides(grid, p, q)} :
        \A k \in 0..n : \A c \in {SampleCell(grid, p, q, k, n)} :
            ~Blocked(grid, c)

RECURSIVE Trapezoids(_, _, _, _, _)
\* the cost of sub-segments 1..k of the line a -> b
Trapezoids(grid, a, b, k, log_cell_m) ==
    IF k = 0 THEN 0
    ELSE CHOOSE cost \in
           {Trapezoids(grid, a, b, k - 1, log_cell_m)
            + edge_cost(grid, c, d, StraightDistance(grid, a, b) \div n,
                        log_cell_m) :
              n \in {Strides(grid, a, b)},
              c \in {SampleCell(grid, a, b, k - 1, Strides(grid, a, b))},
              d \in {SampleCell(grid, a, b, k, Strides(grid, a, b))}} : TRUE

\* edge cost for any-angle line of sight
los_cost(grid, a, b, log_cell_m) ==
    IF ~line_of_sight(grid, a, b) THEN Infinity
    ELSE CHOOSE cost \in {Trapezoids(grid, p, q, n, log_cell_m) :
                            p \in {a}, q \in {b},
                            n \in {Strides(grid, a, b)}} : TRUE

\* --------------------------------------------------- pathfinders (spec 4.6)
\* A run of find_path is a record: its arguments (algorithm, heuristic_type,
\* grid, log_cell_m, start, end), the per-cell state, g_score and
\* parent_index, the key and insertion number of each frontier entry, the
\* pops made so far and the path returned.
Cells(grid) == 0..(grid.width * grid.height - 1)
InformedAlgorithms == {"Optimized A*", "Theta*", "Lazy Theta*"}
CellOf(grid, p) == toIndex(p.x, p.y, grid.width)
StartCell(run) == CellOf(run.grid, run.start)
GoalCell(run) == CellOf(run.grid, run.end)

\* h(n, goal): the heuristic formula times log_cell_m; none for Dijkstra, BFS
Heuristic(run, n) ==
    IF run.algorithm \notin InformedAlgorithms THEN 0
    ELSE (calculate_heuristic(toCoords(n, run.grid.width).x,
                              toCoords(n, run.grid.width).y,
                              run.end.x, run.end.y, run.heuristic_type)
          * run.log_cell_m) \div 1000

\* the direction d of 1..8 in which s lies next to c, 0 when it does not
Direction(grid, c, s) ==
    IF \E d \in 1..NUM_DIRECTIONS :
           /\ toCoords(s, grid.width).x = toCoords(c, grid.width).x + dx[d]
           /\ toCoords(s, grid.width).y = toCoords(c, grid.width).y + dy[d]
    THEN CHOOSE d \in 1..NUM_DIRECTIONS :
           /\ toCoords(s, grid.width).x = toCoords(c, grid.width).x + dx[d]
           /\ toCoords(s, grid.width).y = toCoords(c, grid.width).y + dy[d]
    ELSE 0

\* StepCost without the infinite cost of an impassable cell
StepCostThroughWalls(run, c, s) ==
    IF run.algorithm = "BFS" THEN 1000
    ELSE ((((costs[Direction(run.grid, c, s)] * run.log_cell_m) \div 1000)
           * ((Multiplier(run.grid, c) + Multiplier(run.grid, s)) \div 2))
          \div SlopePenaltyFlat)

\* the cost of the grid edge c -> s: edge_cost, or one hop for BFS
StepCost(run, c, s) ==
    IF run.algorithm = "BFS"
    THEN IF Blocked(run.grid, c) \/ Blocked(run.grid, s) THEN Infinity ELSE 1000
    ELSE edge_cost(run.grid, c, s, costs[Direction(run.grid, c, s)],
                   run.log_cell_m)

OpenCells(run) == {c \in Cells(run.grid) : run.state[c] = "Open"}

\* Precedes as a first-in first-out queue would have it
PrecedesByInsertion(run, a, b) == run.seq[a] < run.seq[b]

\* frontier order: lower key, then lower h, then earlier insertion
Precedes(run, a, b) ==
    \/ run.f[a] < run.f[b]
    \/ /\ run.f[a] = run.f[b]
       /\ \/ Heuristic(run, a) < Heuristic(run, b)
          \/ Heuristic(run, a) = Heuristic(run, b) /\ run.seq[a] < run.seq[b]
Best(run) ==
    CHOOSE c \in OpenCells(run) : \A o \in OpenCells(run) \ {c} : Precedes(run, c, o)

\* Lazy Theta*: the already-expanded neighbours of c
ExpandedNeighbours(run, c) ==
    {n \in Cells(run.grid) :
        Direction(run.grid, n, c) # 0 /\ run.state[n] = "Closed"}
\* Lazy Theta*: the assumed parent of c is occluded and can be replaced
NeedsRepair(run, c) ==
    /\ run.algorithm = "Lazy Theta*"
    /\ c # StartCell(run)
    /\ ~line_of_sight(run.grid, run.parent[c], c)
    /\ ExpandedNeighbours(run, c) # {}
RepairParent(run, c) ==
    CHOOSE n \in ExpandedNeighbours(run, c) :
        \A m \in ExpandedNeighbours(run, c) :
            run.g[n] + StepCost(run, n, c) <= run.g[m] + StepCost(run, m, c)
\* g and parent of c as its expansion finds them
PoppedG(run, c) ==
    IF NeedsRepair(run, c)
    THEN run.g[RepairParent(run, c)] + StepCost(run, RepairParent(run, c), c)
    ELSE run.g[c]
PoppedParent(run, c) ==
    IF NeedsRepair(run, c) THEN RepairParent(run, c) ELSE run.parent[c]

\* the parent the expansion of c offers its successor s
OfferedParent(run, c, s) ==
    CASE run.algorithm = "Theta*" ->
            IF los_cost(run.grid, PoppedParent(run, c), s, run.log_cell_m) < Infinity
            THEN PoppedParent(run, c) ELSE c
      [] run.algorithm = "Lazy Theta*" -> PoppedParent(run, c)
      [] OTHER -> c
\* the g it offers
OfferedG(run, c, s) ==
    CASE run.algorithm = "Theta*" ->
            IF los_cost(run.grid, PoppedParent(run, c), s, run.log_cell_m) < Infinity
            THEN run.g[PoppedParent(run, c)]
                 + los_cost(run.grid, PoppedParent(run, c), s, run.log_cell_m)
            ELSE Min(Infinity, PoppedG(run, c) + StepCost(run, c, s))
      [] run.algorithm = "Lazy Theta*" ->
            IF PoppedParent(run, c) = c
            THEN Min(Infinity, PoppedG(run, c) + StepCost(run, c, s))
            ELSE Min(Infinity,
                     run.g[PoppedParent(run, c)]
                     + edge_cost(run.grid, PoppedParent(run, c), s,
                                 StraightDistance(run.grid, PoppedParent(run, c), s),
                                 run.log_cell_m))
      [] OTHER -> Min(Infinity, PoppedG(run, c) + StepCost(run, c, s))

\* Relaxes on an offer that equals the g the successor has
RelaxesOnTies(run, c, s) ==
    /\ Direction(run.grid, c, s) # 0
    /\ run.state[s] # "Closed"
    /\ s # c
    /\ StepCost(run, c, s) < Infinity
    /\ OfferedG(run, c, s) < Infinity
    /\ run.state[s] = "Unseen" \/ OfferedG(run, c, s) <= run.g[s]

\* the expansion of c relaxes s: a neighbour, not closed, over a finite
\* edge, unseen or strictly improved
Relaxes(run, c, s) ==
    /\ Direction(run.grid, c, s) # 0
    /\ run.state[s] # "Closed"
    /\ s # c
    /\ StepCost(run, c, s) < Infinity
    /\ OfferedG(run, c, s) < Infinity
    /\ run.state[s] = "Unseen" \/ OfferedG(run, c, s) < run.g[s]

RECURSIVE PathTo(_, _, _)
\* the cells from the start to c along the parents, at most fuel of them
PathTo(parent, c, fuel) ==
    IF parent[c] = c \/ fuel = 0 THEN << c >>
    ELSE Append(PathTo(parent, parent[c], fuel - 1), c)

\* a run before its first step
NewRun(request) ==
    [phase |-> "called", algorithm |-> request.algorithm,
     heuristic_type |-> request.heuristic_type, grid |-> request.grid,
     log_cell_m |-> request.log_cell_m, start |-> request.start,
     end |-> request.end,
     state |-> [c \in Cells(request.grid) |-> "Unseen"],
     g |-> [c \in Cells(request.grid) |-> Infinity],
     f |-> [c \in Cells(request.grid) |-> Infinity],
     parent |-> [c \in Cells(request.grid) |-> -1],
     seq |-> [c \in Cells(request.grid) |-> 0],
     n |-> 0, popped |-> << >>, path |-> << >>]
\* no run
NoRun == [phase |-> "none"]
\* no utility call under examination
NoCall == [phase |-> "none"]

\* ------------------------------------------------------------ program state
VARIABLES
    \* PathfindingLogic::processAndFindPath: position, argument, result, locals
    pc, params, result,
    scanResult, canFetchElevation, useRealElevation, mapScaleFromXml,
    logical_grid_opt, normInfo_opt, waypoints, elevationResult, elev,
    full_path_indices, path_found_for_all_segments, errorMsg, i,
    exc,        \* the exception in flight, if any
    calls,      \* the pathfinder invocations made so far
    warnings,   \* segments for which the join warning was logged
    \* MainWindow
    m_impl, obstacleCostsText, guiStack, window, dialog, future, runs,
    \* the pathfinder run in progress
    pf,
    \* what pathsaver::savePathToOmap has been handed, in order
    saved,
    \* the call of a PathfindingUtils function under examination
    util

beVars == << pc, params, result, scanResult, canFetchElevation, useRealElevation,
             mapScaleFromXml, logical_grid_opt, normInfo_opt, waypoints,
             elevationResult, elev, full_path_indices,
             path_found_for_all_segments, errorMsg, i, exc, calls, warnings >>
guiVars == << m_impl, obstacleCostsText, guiStack, window, dialog,
              future, runs >>
vars == << beVars, guiVars, pf, saved, util >>

\* --------------------------------------------------------------- messages
Msg(text, args) == [text |-> text, args |-> args]
NoMessage == Msg("", << >>)

NoExc == [type |-> "none"]
StdException(what) == [type |-> "std::exception", what |-> what]
UnknownException == [type |-> "unknown"]
\* what an external collaborator (map reader, Python bridge, pathfinder) may throw
ExternalThrows == {StdException("external failure"), UnknownException}

\* ------------------------------------------------- external collaborators
\* mapscan::ScanResult values the scanner may return
ScanOf(found, ref, bounds, scale) ==
    [georeferencingFound |-> found, refLatLon |-> ref,
     rawBoundsUM |-> bounds, mapScale |-> scale]
RefPoint == [x |-> 14, y |-> 50]
\* mapscan::BoundsUM of a map, initialized or not
RawBounds(map, initialized) ==
    LET b == MapBounds(map) IN
    [initialized |-> initialized, min_x |-> b.min_x, min_y |-> b.min_y,
     max_x |-> b.max_x, max_y |-> b.max_y]
ScanResults ==
    [map \in MapFiles |->
    LET b == Some(RawBounds(map, TRUE))
        u == Some(RawBounds(map, FALSE))
    IN  { ScanOf(TRUE, Some(RefPoint), b, Some(10000)),
          ScanOf(FALSE, None, b, None),
          ScanOf(TRUE, Some(RefPoint), b, None),
          ScanOf(FALSE, None, None, None),
          ScanOf(TRUE, Some(RefPoint), u, Some(10000)) }]

\* ElevationFetcher::ElevationData: a default-constructed value, and the
\* values fetchElevationDataEmbedded may return (lengths in millimetres).
DefaultElevationData ==
    [success |-> FALSE, values |-> << >>, width |-> 0, height |-> 0,
     resolution_meters |-> 0, origin_proj_x |-> 0, origin_proj_y |-> 0]
FetchedElevationData ==
    [success |-> TRUE, values |-> << 120, 80 >>, width |-> 2, height |-> 1,
     resolution_meters |-> 90000, origin_proj_x |-> 400000, origin_proj_y |-> 700000]
FetchResults ==
    { FetchedElevationData, DefaultElevationData,
      [DefaultElevationData EXCEPT !.success = TRUE] }
hasData(e) == e.values # << >> /\ e.width > 0 /\ e.height > 0

\* convertLatLonToProjectedViaPython
ConvertResults == { [success |-> TRUE, x |-> 500000, y |-> 800000],
                    [success |-> FALSE, x |-> 0, y |-> 0] }

GridWidths == 1..MaxGridWidth
GridHeights == 1..MaxGridHeight

\* the cells a waypoint extractor may name: the grid's and one column and one
\* row beyond it
Points(w, h) ==
    {[x |-> px, y |-> 0] : px \in 0..w} \cup {[x |-> 0, y |-> h]}

RECURSIVE SeqsUpTo(_, _)
SeqsUpTo(S, n) ==
    IF n = 0 THEN {<< >>}
    ELSE LET shorter == SeqsUpTo(S, n - 1)
         IN  shorter \cup {Append(q, e) : q \in {t \in shorter : Len(t) = n - 1}, e \in S}

\* what extractWaypointsFromFile may return, by grid width and height
WaypointLists ==
    [w \in GridWidths, h \in GridHeights |->
        {None} \cup {Some(l) : l \in SeqsUpTo(Points(w, h), MaxWaypoints)}]

\* what a pathfinder may return, by the number of cells of the grid: any
\* index list, empty for NotFound
CellCounts == 1..(MaxGridWidth * MaxGridHeight)
SegmentPaths == [n \in CellCounts |-> SeqsUpTo(0..(n - 1), MaxSegLen)]

\* ------------------------------------ PathfindingLogic::processAndFindPath
CpuAlgorithms == {"Optimized A*", "Dijkstra", "BFS", "Theta*", "Lazy Theta*"}

\* the BackendResult as processAndFindPath sets it up before its try block
NewResult(p) ==
    [success |-> FALSE, errorMessage |-> NoMessage,
     usedMapFilePath |-> p.mapFilePath,
     currentControlsFilePath |-> p.controlsFilePath,
     usedGridWidth |-> p.desiredGridWidth,
     usedGridHeight |-> p.desiredGridHeight,
     processedGrid |-> None, normalizationInfo |-> None,
     usedDummyElevation |-> TRUE, finalLogicalResolutionMeters |-> 1000,
     finalOriginOffsetX |-> 0, finalOriginOffsetY |-> 0,
     fullPathIndices |-> << >>, waypointsFound |-> 0]

NoElev == [values |-> << >>, width |-> 0, height |-> 0, resolution |-> 0,
           origin_offset_x |-> 0, origin_offset_y |-> 0,
           log_cell_resolution |-> 1000]

\* a throw inside the try block: control goes to the handlers
Throw(e) == exc' = e /\ pc' = "catch"

\* 1. Map scan; throws is what the scanner may throw, scans[map] what it may
\* return
ScanMap(throws, scans) ==
    /\ pc = "scan"
    /\ \/ /\ \E e \in throws : Throw(e)
          /\ UNCHANGED << scanResult, canFetchElevation, mapScaleFromXml >>
       \/ \E r \in scans[params.mapFilePath] :
            LET complete == /\ r.georeferencingFound /\ r.refLatLon.has
                            /\ r.rawBoundsUM.has /\ r.rawBoundsUM.val.initialized
                            /\ r.mapScale.has
            IN  /\ scanResult' = r
                /\ canFetchElevation' = complete
                /\ mapScaleFromXml' = IF complete THEN r.mapScale.val ELSE 10000
                /\ IF ~complete /\ (~r.rawBoundsUM.has \/ ~r.rawBoundsUM.val.initialized)
                   THEN Throw(StdException(
                            "Could not determine coordinate bounds from map file."))
                   ELSE exc' = exc /\ pc' = "grid"
    /\ UNCHANGED << params, result, useRealElevation, logical_grid_opt,
                    normInfo_opt, waypoints, elevationResult, elev,
                    full_path_indices, path_found_for_all_segments, errorMsg, i,
                    calls, warnings, guiVars >>
    /\ UNCHANGED << pf, saved, util >>

\* the normalization results the check of line 478 refuses
InvalidNormalization(kind, n) ==
    IF kind = "absent" THEN None ELSE Some([n EXCEPT !.valid = FALSE])

\* Process Grid (reuse or generate); throws is what loading the map and
\* generating the grid may throw, invalid the kinds of unusable normalization
\* result the processor may report
ProcessGrid(throws, invalid) ==
    /\ pc = "grid"
    /\ IF /\ params.reuseGridIfPossible /\ params.existingGrid.has
          /\ params.existingNormInfo.has
       THEN /\ logical_grid_opt' = params.existingGrid
            /\ normInfo_opt' = params.existingNormInfo
            /\ result' = [result EXCEPT !.processedGrid = params.existingGrid,
                                        !.normalizationInfo = params.existingNormInfo]
            /\ exc' = exc /\ pc' = "waypoints"
       ELSE LET g == GenerateGrid(params.mapFilePath, params.desiredGridWidth,
                                  params.desiredGridHeight, params.obstacleCosts)
                n == Normalization(params.mapFilePath, params.desiredGridWidth,
                                   params.desiredGridHeight)
            IN  \/ /\ \E e \in throws : Throw(e)
                   /\ UNCHANGED << logical_grid_opt, normInfo_opt, result >>
                \/ /\ normInfo_opt' \in {InvalidNormalization(kind, n) : kind \in invalid}
                   /\ Throw(StdException(
                         "Normalization results invalid after grid generation."))
                   /\ logical_grid_opt' = Some(g)
                   /\ UNCHANGED result
                \/ /\ logical_grid_opt' = Some(g)
                   /\ normInfo_opt' = Some(n)
                   /\ result' = [result EXCEPT !.processedGrid = Some(g),
                                               !.normalizationInfo = Some(n)]
                   /\ exc' = exc /\ pc' = "waypoints"
    /\ UNCHANGED << params, scanResult, canFetchElevation, useRealElevation,
                    mapScaleFromXml, waypoints, elevationResult, elev,
                    full_path_indices, path_found_for_all_segments, errorMsg, i,
                    calls, warnings, guiVars >>
    /\ UNCHANGED << pf, saved, util >>

\* 2. Waypoint extraction; throws is what the extractor may throw,
\* lists[width, height] what it may return
ExtractWaypoints(throws, lists) ==
    /\ pc = "waypoints"
    /\ \/ /\ \E e \in throws : Throw(e)
          /\ UNCHANGED << waypoints, result >>
       \/ \E w \in lists[params.desiredGridWidth, params.desiredGridHeight] :
            IF ~w.has \/ Len(w.val) < 2
            THEN /\ Throw(StdException(
                     "Failed to extract valid Start/Control/End sequence from controls file: "))
                 /\ UNCHANGED << waypoints, result >>
            ELSE /\ waypoints' = w.val
                 /\ result' = [result EXCEPT !.waypointsFound = Len(w.val)]
                 /\ exc' = exc /\ pc' = "elevation"
    /\ UNCHANGED << params, scanResult, canFetchElevation, useRealElevation,
                    mapScaleFromXml, logical_grid_opt, normInfo_opt,
                    elevationResult, elev, full_path_indices,
                    path_found_for_all_segments, errorMsg, i, calls, warnings,
                    guiVars >>
    /\ UNCHANGED << pf, saved, util >>

\* log_cell_resolution_meters (lines 570-577), in millimetres: one internal
\* unit is scale / 1,000,000 metres
LogCellResolution(norm, w, scale) ==
    LET real_world_max_x == norm.min_x + w * norm.resolution_x
        logical_res == (real_world_max_x - norm.min_x) \div w
        res == (logical_res * scale) \div 1000
    IN  IF res <= 0 THEN 1000 ELSE res

\* the dummy elevation grid (lines 615-625)
DummyElevation(w, h, logres) ==
    [values |-> [k \in 1..(w * h) |-> 100], width |-> w, height |-> h,
     resolution |-> logres, origin_offset_x |-> 0, origin_offset_y |-> 0,
     log_cell_resolution |-> logres]

\* the final parameters from fetched data and the projected anchor (580-603)
RealElevation(er, anchor, norm, scale, logres) ==
    [values |-> er.values, width |-> er.width, height |-> er.height,
     resolution |-> er.resolution_meters,
     origin_offset_x |-> er.origin_proj_x - (anchor.x + (norm.min_x * scale) \div 1000),
     origin_offset_y |-> er.origin_proj_y - (anchor.y - (norm.min_y * scale) \div 1000),
     log_cell_resolution |-> logres]

\* useRealElevation as declared (line 443)
UseRealElevationInitially == TRUE

\* 3. Elevation fetching and parameter calculation; throws is what the
\* fetcher and the coordinate conversion may throw, fetches and anchors what
\* they may return
PrepareElevation(throws, fetches, anchors) ==
    /\ pc = "elevation"
    /\ \/ /\ canFetchElevation
          /\ \E e \in throws : Throw(e)
          /\ UNCHANGED << elevationResult, useRealElevation, elev, result >>
       \/ \E er \in (IF canFetchElevation THEN fetches ELSE {DefaultElevationData}) :
            LET useReal == IF canFetchElevation /\ er.success /\ hasData(er)
                           THEN TRUE ELSE useRealElevation
                norm == normInfo_opt.val
                w == params.desiredGridWidth
                h == params.desiredGridHeight
                logres == LogCellResolution(norm, w, mapScaleFromXml)
                Done(e, real) ==
                    /\ elev' = e
                    /\ useRealElevation' = real
                    /\ result' = [result EXCEPT
                                    !.usedDummyElevation = ~real,
                                    !.finalLogicalResolutionMeters = logres,
                                    !.finalOriginOffsetX = e.origin_offset_x,
                                    !.finalOriginOffsetY = e.origin_offset_y]
                    /\ exc' = exc /\ pc' = "loop"
            IN  /\ elevationResult' = er
                /\ IF ~useReal
                   THEN Done(DummyElevation(w, h, logres), FALSE)
                   ELSE IF ~scanResult.refLatLon.has
                   THEN /\ Throw(StdException("bad optional access"))
                        /\ UNCHANGED << useRealElevation, elev, result >>
                   ELSE \/ /\ \E e \in throws : Throw(e)
                           /\ UNCHANGED << useRealElevation, elev, result >>
                        \/ \E anchor \in anchors :
                             IF anchor.success
                             THEN Done(RealElevation(er, anchor, norm,
                                                     mapScaleFromXml, logres), TRUE)
                             ELSE Done(DummyElevation(w, h, logres), FALSE)
    /\ full_path_indices' = << >>
    /\ path_found_for_all_segments' = TRUE
    /\ errorMsg' = NoMessage
    /\ i' = 0
    /\ UNCHANGED << params, scanResult, canFetchElevation, mapScaleFromXml,
                    logical_grid_opt, normInfo_opt, waypoints, calls, warnings,
                    guiVars >>
    /\ UNCHANGED << pf, saved, util >>

Last(q) == q[Len(q)]

\* a join that keeps the last segment only
KeepSegment(full, seg) == [path |-> seg, warned |-> FALSE]

\* a join that appends every segment whole
AppendWhole(full, seg) == [path |-> full \o seg, warned |-> FALSE]

\* Concatenate paths (lines 775-800): the new running result, and whether the
\* mismatch warning is logged
Concatenate(full, seg) ==
    IF full = << >> THEN [path |-> seg, warned |-> FALSE]
    ELSE IF seg # << >>
    THEN IF Len(seg) > 1 /\ Last(full) = Head(seg)
         THEN [path |-> full \o Tail(seg), warned |-> FALSE]
         ELSE IF Len(seg) = 1 /\ Last(full) = Head(seg)
         THEN [path |-> full, warned |-> FALSE]
         ELSE [path |-> full \o seg,
               warned |-> Len(seg) > 1 /\ Last(full) # Head(seg)]
    ELSE [path |-> full, warned |-> FALSE]

\* an Identical Point Check that pushes nothing
PushNever(full, pointIndex) == full

\* an Identical Point Check that pushes the index every time
PushAlways(full, pointIndex) == Append(full, pointIndex)

\* Identical Point Check (lines 668-675)
PushIdentical(full, pointIndex) ==
    IF full = << >> \/ Last(full) # pointIndex THEN Append(full, pointIndex)
    ELSE full

\* the message thrown for an unrecognised algorithm name, CUDA disabled
\* (lines 748-753); the name contains "GPU" exactly for the GUI's GPU entries
GpuAlgorithms == {"Delta Stepping - GPU", "HADS - GPU", "A* - GPU"}
UnsupportedMessage(name) ==
    IF name \in GpuAlgorithms
    THEN "GPU algorithm '%1' selected, but CUDA is disabled in this build."
    ELSE "Unsupported CPU algorithm selected: %1"

\* a loop that does not test the segment's path
NeverNotFound(seg) == FALSE

\* the break taken when a segment's path is empty (lines 764-773)
SegmentNotFound(seg) == seg = << >>

\* a dispatch that hands every pathfinder the heuristic type
HeuristicAlwaysPassed(algorithmName, heuristicType) == Some(heuristicType)

\* the heuristic argument of the dispatch (lines 706-735): A*, Theta* and
\* Lazy Theta* are handed params.heuristicType, Dijkstra and BFS have no such
\* parameter
HeuristicArgument(algorithmName, heuristicType) ==
    IF algorithmName \in {"Optimized A*", "Theta*", "Lazy Theta*"}
    THEN Some(heuristicType) ELSE None

\* the record kept of one pathfinder invocation: its arguments and what came
\* back, the index list or Thrown (no index is negative)
Thrown == << -1 >>
PathfinderCall(p, segment, a, b, elevation, outcome) ==
    [segment |-> segment, algorithm |-> p.algorithmName,
     heuristic |-> HeuristicArgument(p.algorithmName, p.heuristicType),
     start |-> a, end |-> b, elevation |-> elevation, path |-> outcome]

\* what a pathfinder does when called: it throws, or returns an index list
Raises(e) == [raised |-> TRUE, exc |-> e, path |-> Thrown]
Returns(seg) == [raised |-> FALSE, exc |-> NoExc, path |-> seg]
Answers(throws, segs) ==
    {Raises(e) : e \in throws} \cup {Returns(seg) : seg \in segs}

\* a loop without the Bounds Check
NeverOutOfBounds(grid, a, b) == FALSE

\* the Bounds Check of a segment (line 655)
SegmentOutOfBounds(grid, a, b) ==
    ~inBounds(grid, a.x, a.y) \/ ~inBounds(grid, b.x, b.y)

\* the locals of the pathfinding loop
LoopLocals ==
    [pc |-> pc, i |-> i, full_path_indices |-> full_path_indices,
     path_found_for_all_segments |-> path_found_for_all_segments,
     errorMsg |-> errorMsg, exc |-> exc, calls |-> calls,
     warnings |-> warnings]

\* the body of the loop (lines 647-801) for segment l.i of a call with
\* parameters p: the locals after it, when the pathfinder, if it is called,
\* answers with answer
SegmentBody(p, grid, wps, elevation, l, answer) ==
    IF SegmentOutOfBounds(grid, wps[l.i + 1], wps[l.i + 2])
    THEN [l EXCEPT
            !.errorMsg = Msg("Segment %1 start/end point (%2,%3 -> %4,%5) out of grid bounds (WxH: %6x%7).",
                             << l.i + 1, wps[l.i + 1].x, wps[l.i + 1].y,
                                wps[l.i + 2].x, wps[l.i + 2].y,
                                grid.width, grid.height >>),
            !.path_found_for_all_segments = FALSE,
            !.pc = "finalize"]
    ELSE IF wps[l.i + 1] = wps[l.i + 2]
    THEN [l EXCEPT
            !.full_path_indices =
                PushIdentical(l.full_path_indices,
                              toIndex(wps[l.i + 1].x, wps[l.i + 1].y, grid.width)),
            !.i = l.i + 1]
    ELSE IF p.algorithmName \notin CpuAlgorithms
    THEN [l EXCEPT
            !.errorMsg = Msg(UnsupportedMessage(p.algorithmName),
                             << p.algorithmName >>),
            !.exc = StdException(UnsupportedMessage(p.algorithmName)),
            !.pc = "catch"]
    ELSE IF answer.raised
    THEN [l EXCEPT
            !.calls = Append(l.calls,
                             PathfinderCall(p, l.i, wps[l.i + 1], wps[l.i + 2],
                                            elevation, Thrown)),
            !.exc = answer.exc,
            !.pc = "catch"]
    ELSE IF SegmentNotFound(answer.path)
    THEN [l EXCEPT
            !.calls = Append(l.calls,
                             PathfinderCall(p, l.i, wps[l.i + 1], wps[l.i + 2],
                                            elevation, answer.path)),
            !.errorMsg = Msg("Path not found for segment %1 (Start: %2,%3 End: %4,%5).",
                             << l.i + 1, wps[l.i + 1].x, wps[l.i + 1].y,
                                wps[l.i + 2].x, wps[l.i + 2].y >>),
            !.path_found_for_all_segments = FALSE,
            !.pc = "finalize"]
    ELSE [l EXCEPT
            !.calls = Append(l.calls,
                             PathfinderCall(p, l.i, wps[l.i + 1], wps[l.i + 2],
                                            elevation, answer.path)),
            !.full_path_indices =
                Concatenate(l.full_path_indices, answer.path).path,
            !.warnings =
                IF Concatenate(l.full_path_indices, answer.path).warned
                THEN Append(l.warnings, l.i + 1) ELSE l.warnings,
            !.i = l.i + 1]

\* 4. One iteration of the pathfinding loop; throws is what a pathfinder may
\* throw, paths[cells] what it may return for a grid of that many cells
Segment(throws, paths) ==
    /\ pc = "loop"
    /\ i < Len(waypoints) - 1
    /\ \E answer \in Answers(throws, paths[logical_grid_opt.val.width
                                           * logical_grid_opt.val.height]) :
         \E l \in {SegmentBody(params, logical_grid_opt.val, waypoints, elev,
                               LoopLocals, answer)} :
            /\ pc' = l.pc
            /\ i' = l.i
            /\ full_path_indices' = l.full_path_indices
            /\ path_found_for_all_segments' = l.path_found_for_all_segments
            /\ errorMsg' = l.errorMsg
            /\ exc' = l.exc
            /\ calls' = l.calls
            /\ warnings' = l.warnings
    /\ UNCHANGED << params, result, scanResult, canFetchElevation,
                    useRealElevation, mapScaleFromXml, logical_grid_opt,
                    normInfo_opt, waypoints, elevationResult, elev, guiVars >>
    /\ UNCHANGED << pf, saved, util >>

\* the watched QFuture once the call has returned
Returned == IF future = "running" THEN "finished" ELSE future

\* Finalize Result (lines 809-832): the result returned when the loop is over
FinalResult(res, wps, found, full, msg) ==
    IF found
    THEN IF full = << >> /\ Len(wps) > 1
         THEN [res EXCEPT !.success = TRUE,
                 !.errorMessage = Msg("Path consists of identical points only.", << >>)]
         ELSE IF full = << >> /\ Len(wps) <= 1
         THEN [res EXCEPT !.success = TRUE,
                 !.errorMessage = Msg("Not enough waypoints for pathfinding.", << >>)]
         ELSE [res EXCEPT !.success = TRUE, !.fullPathIndices = full]
    ELSE [res EXCEPT !.success = FALSE, !.errorMessage = msg,
                     !.fullPathIndices = << >>]

\* 5. Finalize Result and return
Finalize ==
    /\ \/ pc = "finalize"
       \/ pc = "loop" /\ i >= Len(waypoints) - 1
    /\ result' = FinalResult(result, waypoints, path_found_for_all_segments,
                             full_path_indices, errorMsg)
    /\ pc' = "done"
    /\ future' = Returned
    /\ UNCHANGED << params, scanResult, canFetchElevation, useRealElevation,
                    mapScaleFromXml, logical_grid_opt, normInfo_opt, waypoints,
                    elevationResult, elev, full_path_indices,
                    path_found_for_all_segments, errorMsg, i, exc, calls,
                    warnings, m_impl, obstacleCostsText, guiStack, window,
                    dialog, runs >>
    /\ UNCHANGED << pf, saved, util >>

\* a try block whose only handler is the one for std::exception
CatchNothingElse(e) == FALSE

\* catch (...) (line 840) takes every exception the first handler leaves
CatchAll(e) == TRUE

\* the result the two handlers of the try block leave (lines 835-844)
CaughtResult(res, e) ==
    IF e.type = "std::exception"
    THEN [res EXCEPT !.success = FALSE,
            !.errorMessage = Msg("Backend Error: ", << e.what >>)]
    ELSE [res EXCEPT !.success = FALSE,
            !.errorMessage =
                Msg("Backend Error: An unknown exception occurred.", << >>)]

\* the two handlers of the try block and return; an exception no handler
\* takes leaves the function
CatchException ==
    /\ pc = "catch"
    /\ IF exc.type = "std::exception" \/ CatchAll(exc)
       THEN /\ result' = CaughtResult(result, exc)
            /\ pc' = "done"
       ELSE /\ pc' = "escaped"
            /\ UNCHANGED result
    /\ future' = Returned
    /\ UNCHANGED << params, scanResult, canFetchElevation, useRealElevation,
                    mapScaleFromXml, logical_grid_opt, normInfo_opt, waypoints,
                    elevationResult, elev, full_path_indices,
                    path_found_for_all_segments, errorMsg, i, exc, calls,
                    warnings, m_impl, obstacleCostsText, guiStack, window,
                    dialog, runs >>
    /\ UNCHANGED << pf, saved, util >>

\* ------------------------------------------------------------- MainWindow
\* what the user may have in the widgets when pressing Calculate
AnyFileExists(path) == TRUE

FileExists(path) == path \in MapFiles \cup {"c.omap"}

\* a handler that finds a calculation or an export running does nothing
NeverBusy(impl) == FALSE

\* if (!m_impl || m_impl->isCalculating) return; (lines 668, 861)
Busy(impl) == impl.isCalculating
GuiAlgorithms == {"Dijkstra", "A* - GPU"}
HeuristicNotApplicable == -1
\* onAlgorithmChanged: the heuristic selector is enabled for the items whose
\* text contains "A*" or "Theta*"
usesHeuristic(algoName) ==
    algoName \in {"Optimized A*", "Theta*", "Lazy Theta*", "A* - GPU"}

\* a stored grid is reused whatever it was made for
ReuseWhenever(mapFilePath, w, h) == m_impl.lastProcessedGrid.has

\* 3. Check for Grid Reuse (lines 720-736)
ReuseRequested(mapFilePath, w, h) ==
    /\ m_impl.lastProcessedGrid.has
    /\ m_impl.currentMapFilePath = mapFilePath
    /\ m_impl.lastGridWidth = w
    /\ m_impl.lastGridHeight = h

\* MainWindow::onCalculatePathClicked up to the processEvents call that
\* setGuiCalculating(true) makes inside runBackendProcessingAsync
onCalculatePathClicked(widgets) ==
    /\ window = "open"
    /\ \E input \in widgets :
        LET mapFilePath == input.mapFilePath
            controlsFilePath == input.controlsFilePath
            w == input.gridWidth
            h == input.gridHeight
            algorithmName == input.algorithmName
            parsed == parseObstacleCosts(obstacleCostsText)
            reuse == ReuseRequested(mapFilePath, w, h)
            p == [mapFilePath |-> mapFilePath,
                  controlsFilePath |-> controlsFilePath,
                  desiredGridWidth |-> w, desiredGridHeight |-> h,
                  obstacleCosts |-> parsed.configMap,
                  algorithmName |-> algorithmName,
                  heuristicType |-> IF usesHeuristic(algorithmName)
                                    THEN input.heuristic
                                    ELSE HeuristicNotApplicable,
                  reuseGridIfPossible |-> reuse,
                  existingGrid |-> IF reuse THEN m_impl.lastProcessedGrid ELSE None,
                  existingNormInfo |-> IF reuse THEN m_impl.lastNormalizationInfo
                                       ELSE None]
            Reject(message) ==
                /\ dialog' = message
                /\ UNCHANGED << m_impl, guiStack, runs >>
        IN  IF Busy(m_impl)
            THEN UNCHANGED << dialog, m_impl, guiStack, runs >>
            ELSE IF ~parsed.ok
            THEN Reject("Invalid format in Obstacle Costs.")
            ELSE IF mapFilePath = "" \/ controlsFilePath = ""
            THEN Reject("Please select both a Map file and a Controls file.")
            ELSE IF ~FileExists(mapFilePath)
            THEN Reject("Map file not found: ")
            ELSE IF ~FileExists(controlsFilePath)
            THEN Reject("Controls file not found: ")
            ELSE /\ runs < MaxRuns
                 /\ runs' = runs + 1
                 /\ m_impl' = [m_impl EXCEPT !.isCalculating = TRUE,
                                             !.exportButtonEnabled = FALSE]
                 /\ guiStack' = Append(guiStack,
                                       [handler |-> "runBackendProcessingAsync",
                                        params |-> p])
                 /\ UNCHANGED dialog
    /\ UNCHANGED << beVars, obstacleCostsText, window, future >>
    /\ UNCHANGED << pf, saved, util >>

\* what onCalculatePathClicked tells the user on rejecting a request
RejectionMessages ==
    {"Invalid format in Obstacle Costs.",
     "Please select both a Map file and a Controls file.",
     "Map file not found: ", "Controls file not found: "}

\* the request of the task about to be handed to the thread pool
Starting == guiStack # << >> /\ Last(guiStack).handler = "runBackendProcessingAsync"

\* runBackendProcessingAsync after setGuiCalculating(true) (lines 1234-1249):
\* the task is handed to the thread pool and its future to the watcher
runBackendProcessingAsync ==
    /\ guiStack # << >>
    /\ Last(guiStack).handler = "runBackendProcessingAsync"
    /\ pc \in {"idle", "done"}
    /\ params' = Last(guiStack).params
    /\ pc' = "queued"
    /\ future' = "running"
    /\ guiStack' = SubSeq(guiStack, 1, Len(guiStack) - 1)
    /\ UNCHANGED << result, scanResult, canFetchElevation, useRealElevation,
                    mapScaleFromXml, logical_grid_opt, normInfo_opt, waypoints,
                    elevationResult, elev, full_path_indices,
                    path_found_for_all_segments, errorMsg, i, exc, calls,
                    warnings, m_impl, obstacleCostsText, window, dialog, runs >>
    /\ UNCHANGED << pf, saved, util >>

\* the BackendResult of the lambda's defensive branch (lines 1237-1243)
errorResult ==
    [NewResult(params) EXCEPT
        !.errorMessage =
            Msg("Internal error: GUI state lost before processing could start.",
                << >>),
        !.usedMapFilePath = "", !.currentControlsFilePath = "",
        !.usedGridWidth = 0, !.usedGridHeight = 0]

\* what the worker finds on reading this->m_impl (lines 1237, 1246): the
\* Impl while the window object lives; after its destruction the read is of
\* a dead object, which may still show the Impl, show null, or fault
ImplSeen == IF window = "destroyed" THEN {"Impl", "null", "fault"} ELSE {"Impl"}

\* the worker's lambda (lines 1235-1247) entering processAndFindPath
\* (lines 411-420)
WorkerLambda ==
    /\ pc = "queued"
    /\ \E seen \in ImplSeen :
        /\ pc' = CASE seen = "Impl" -> "scan"
                    [] seen = "null" -> "done"
                    [] OTHER -> "crashed"
        /\ result' = IF seen = "null" THEN errorResult ELSE NewResult(params)
        /\ future' = IF seen = "null" THEN Returned ELSE future
    /\ logical_grid_opt' = None
    /\ normInfo_opt' = None
    /\ useRealElevation' = UseRealElevationInitially
    /\ canFetchElevation' = FALSE
    /\ mapScaleFromXml' = 10000
    /\ scanResult' = ScanOf(FALSE, None, None, None)
    /\ waypoints' = << >>
    /\ elevationResult' = DefaultElevationData
    /\ elev' = NoElev
    /\ full_path_indices' = << >>
    /\ path_found_for_all_segments' = TRUE
    /\ errorMsg' = NoMessage
    /\ i' = 0
    /\ exc' = NoExc
    /\ calls' = << >>
    /\ warnings' = << >>
    /\ UNCHANGED << params, m_impl, obstacleCostsText, guiStack, window, dialog,
                    runs >>
    /\ UNCHANGED << pf, saved, util >>

\* MainWindow::onCalculationFinished up to the processEvents call that
\* setGuiCalculating(false) makes (lines 743-748, 1137-1165)
onCalculationFinished ==
    /\ window = "open"
    /\ future = "finished"
    /\ future' = "delivered"
    /\ m_impl' = [m_impl EXCEPT
                    !.isCalculating = FALSE,
                    !.exportButtonEnabled = (m_impl.lastCalculatedPathIndices # << >>)]
    /\ guiStack' = Append(guiStack, [handler |-> "onCalculationFinished",
                                     result |-> result])
    /\ UNCHANGED << beVars, obstacleCostsText, window, dialog, runs >>
    /\ UNCHANGED << pf, saved, util >>

ExportEnabledAlways(r) == TRUE

\* the Export button after a result is handled (lines 766, 805)
ExportEnabledAfter(r) == IF r.success THEN r.fullPathIndices # << >> ELSE FALSE

\* onCalculationFinished after setGuiCalculating(false) (lines 750-811)
StoreResults ==
    /\ guiStack # << >>
    /\ Last(guiStack).handler = "onCalculationFinished"
    /\ LET r == Last(guiStack).result IN
       /\ m_impl' = [m_impl EXCEPT
                       !.currentMapFilePath = r.usedMapFilePath,
                       !.currentControlsFilePath = r.currentControlsFilePath,
                       !.lastGridWidth = r.usedGridWidth,
                       !.lastGridHeight = r.usedGridHeight,
                       !.lastProcessedGrid = r.processedGrid,
                       !.lastNormalizationInfo = r.normalizationInfo,
                       !.lastCalculatedPathIndices = r.fullPathIndices,
                       !.exportButtonEnabled = ExportEnabledAfter(r)]
       /\ dialog' = IF r.success
                    THEN (IF r.fullPathIndices # << >>
                          THEN "Calculation Complete" ELSE dialog)
                    ELSE "Calculation Error"
    /\ guiStack' = SubSeq(guiStack, 1, Len(guiStack) - 1)
    /\ UNCHANGED << beVars, obstacleCostsText, window, future, runs >>
    /\ UNCHANGED << pf, saved, util >>

\* MainWindow::closeEvent (lines 415-431); accept is the user's answer to the
\* question asked while a calculation runs
closeEvent ==
    /\ window = "open"
    /\ \E accept \in BOOLEAN :
        IF m_impl.isCalculating
        THEN /\ dialog' = "Calculation in Progress"
             /\ window' = IF accept THEN "closed" ELSE window
        ELSE /\ window' = "closed"
             /\ UNCHANGED dialog
    /\ UNCHANGED << beVars, m_impl, obstacleCostsText, guiStack, future, runs >>
    /\ UNCHANGED << pf, saved, util >>

\* MainWindow::triggerExport up to the processEvents calls before the save
\* (lines 860-926), on a click of the enabled Export button or called by
\* onCalculationFinished; selectedDir is the folder the user picks
triggerExport ==
    /\ window = "open"
    /\ m_impl.exportButtonEnabled
    /\ \E selectedDir \in {"", "out"} :
        LET Refuse(message) ==
                /\ dialog' = message
                /\ UNCHANGED << m_impl, guiStack >>
        IN  IF Busy(m_impl)
            THEN UNCHANGED << dialog, m_impl, guiStack >>
            ELSE IF m_impl.lastCalculatedPathIndices = << >>
            THEN Refuse("No path data available to export.")
            ELSE IF ~m_impl.lastProcessedGrid.has
                    \/ ~m_impl.lastNormalizationInfo.has
            THEN Refuse("Cannot export path: Missing required map grid or normalization data.")
            ELSE IF m_impl.currentControlsFilePath = ""
            THEN Refuse("Cannot determine output filename")
            ELSE IF selectedDir = ""
            THEN UNCHANGED << dialog, m_impl, guiStack >>
            ELSE /\ Len(saved) < MaxSaves
                 /\ m_impl' = [m_impl EXCEPT !.isCalculating = TRUE,
                                             !.exportButtonEnabled = FALSE]
                 /\ guiStack' = Append(guiStack, [handler |-> "triggerExport"])
                 /\ UNCHANGED dialog
    /\ UNCHANGED << beVars, obstacleCostsText, window, future, runs >>
    /\ UNCHANGED << pf, saved, util >>

\* triggerExport after the processEvents calls: the save of the stored path,
\* grid and normalization, then setGuiCalculating(false) (lines 927-958)
savePathToOmap ==
    /\ guiStack # << >>
    /\ Last(guiStack).handler = "triggerExport"
    /\ saved' = Append(saved,
                       [pathIndices |-> m_impl.lastCalculatedPathIndices,
                        grid |-> m_impl.lastProcessedGrid,
                        normInfo |-> m_impl.lastNormalizationInfo])
    /\ m_impl' = [m_impl EXCEPT
                    !.isCalculating = FALSE,
                    !.exportButtonEnabled = (m_impl.lastCalculatedPathIndices # << >>)]
    /\ guiStack' = SubSeq(guiStack, 1, Len(guiStack) - 1)
    /\ dialog' = "Export Successful"
    /\ UNCHANGED << beVars, obstacleCostsText, window, future, runs >>
    /\ UNCHANGED << pf, util >>

\* main (lines 1254-1267): app.exec() returns once the window has closed, and
\* mainWindow, a local of main, is destroyed and its Impl with it
main ==
    /\ window = "closed"
    /\ guiStack = << >>
    /\ window' = "destroyed"
    /\ UNCHANGED << beVars, m_impl, obstacleCostsText, guiStack, dialog, future,
                    runs >>
    /\ UNCHANGED << pf, saved, util >>

\* the user edits the obstacle costs; the settings panel is disabled while a
\* calculation runs (lines 1150-1155)
EditObstacleCosts(texts) ==
    /\ window = "open"
    /\ ~m_impl.isCalculating
    /\ obstacleCostsText' \in texts
    /\ UNCHANGED << beVars, m_impl, guiStack, window, dialog, future, runs >>
    /\ UNCHANGED << pf, saved, util >>

\* ------------------------------------------------------------ initial states
RECURSIVE Flatten(_)
Flatten(q) == IF q = << >> THEN << >> ELSE Head(q) \o Flatten(Tail(q))

\* the pieces obstacle-cost texts are made of
TextTokens == { <<"1">>, <<"0">>, <<":">>, <<" ">>, <<"-">>, <<".">>, <<"#">>,
                <<"z">>, <<"\n">>, <<"i", "n", "f">>, <<"n", "a", "n">> }
BoundedTexts == {Flatten(q) : q \in SeqsUpTo(TextTokens, MaxTextTokens)}

\* "1: -1.0", the model's counterpart of the default costs (line 1035)
DefaultCostsText == <<"1", ":", " ", "-", "1", ".", "0">>
SampleTexts ==
    { DefaultCostsText,
      <<"1", ":", "1", "\n", "1", ":", "0">>,
      <<"1", ":", "1", "\n", "\n", "#", "z", "\n", " ", "0", " ", ":", " ", "-", "1", ".", "0", " ", "\n", "z">>,
      <<" ", "1", "\t", ":", "\t", "5", "\r", "\n", "z", " ", "z", ":", "2", ".", "5", "0">>,
      <<"1", ":", "1", "e", "9", "9">>,
      <<"1", ":", "1", "e", "-", "9", "9">>,
      <<"1", ":", "2", "e", "1">> }
ObstacleTexts == BoundedTexts \cup SampleTexts
GuiTexts == { DefaultCostsText, <<"1", ":", " ", "5">>, <<"z">> }

CostConfigs == { EmptyConfigMap, [c \in {BarrierCode} |-> MinusOne] }
BackendAlgorithms ==
    {"Dijkstra", "BFS", "Optimized A*", "A* - GPU", "Quantum"}

\* what a caller may pass as grid-reuse data
ReuseOptions ==
    { [reuse |-> FALSE, grid |-> None, norm |-> None],
      [reuse |-> TRUE, grid |-> None, norm |-> None] }
    \cup { [reuse |-> TRUE, grid |-> Some(GenerateGrid("A.omap", w, h, c)),
            norm |-> Some(Normalization("A.omap", w, h))] :
           w \in GridWidths, h \in GridHeights, c \in CostConfigs }

BackendParams ==
    { [mapFilePath |-> "A.omap", controlsFilePath |-> "c.omap",
       desiredGridWidth |-> w, desiredGridHeight |-> h, obstacleCosts |-> c,
       algorithmName |-> a, heuristicType |-> 3,
       reuseGridIfPossible |-> r.reuse, existingGrid |-> r.grid,
       existingNormInfo |-> r.norm] :
      w \in GridWidths, h \in GridHeights, c \in CostConfigs,
      a \in BackendAlgorithms, r \in ReuseOptions }

IdleParams ==
    [mapFilePath |-> "", controlsFilePath |-> "", desiredGridWidth |-> 1,
     desiredGridHeight |-> 1, obstacleCosts |-> EmptyConfigMap,
     algorithmName |-> "Optimized A*", heuristicType |-> 3,
     reuseGridIfPossible |-> FALSE, existingGrid |-> None,
     existingNormInfo |-> None]

\* the locals of a call that has just entered its try block
FreshLocals ==
    /\ logical_grid_opt = None
    /\ normInfo_opt = None
    /\ useRealElevation = UseRealElevationInitially
    /\ canFetchElevation = FALSE
    /\ mapScaleFromXml = 10000
    /\ scanResult = ScanOf(FALSE, None, None, None)
    /\ waypoints = << >>
    /\ elevationResult = DefaultElevationData
    /\ elev = NoElev
    /\ full_path_indices = << >>
    /\ path_found_for_all_segments = TRUE
    /\ errorMsg = NoMessage
    /\ i = 0
    /\ exc = NoExc
    /\ calls = << >>
    /\ warnings = << >>

\* the main window after its constructor (Impl's member initialisers)
WindowConstructed ==
    /\ m_impl = [isCalculating |-> FALSE, currentMapFilePath |-> "",
                 currentControlsFilePath |-> "", lastGridWidth |-> 0,
                 lastGridHeight |-> 0, lastProcessedGrid |-> None,
                 lastNormalizationInfo |-> None,
                 lastCalculatedPathIndices |-> << >>,
                 exportButtonEnabled |-> FALSE]
    /\ guiStack = << >>
    /\ window = "open"
    /\ dialog = "none"
    /\ future = "none"
    /\ runs = 0
    /\ saved = << >>

\* one call of processAndFindPath with any parameters
Init ==
    /\ params \in BackendParams
    /\ result = NewResult(params)
    /\ pc = "scan"
    /\ FreshLocals
    /\ WindowConstructed
    /\ obstacleCostsText = DefaultCostsText
    /\ pf = NoRun
    /\ util = NoCall

\* what MapProcessor::loadMap and generateGrid may throw
LoadThrows == ExternalThrows \cup {StdException("Map load failed: "),
                                   StdException("Grid generation failed")}
\* the kinds of normalization result the check after grid generation refuses
InvalidNormalizations == {"absent", "invalid"}

Next ==
    \/ ScanMap(ExternalThrows, ScanResults)
    \/ ProcessGrid(LoadThrows, InvalidNormalizations)
    \/ ExtractWaypoints(ExternalThrows, WaypointLists)
    \/ PrepareElevation(ExternalThrows, FetchResults, ConvertResults)
    \/ Segment(ExternalThrows, SegmentPaths)
    \/ Finalize
    \/ CatchException

Spec == Init /\ [][Next]_vars

\* the main window with any obstacle-cost text, and Calculate pressed
InitParse ==
    /\ params = IdleParams
    /\ result = NewResult(IdleParams)
    /\ pc = "idle"
    /\ FreshLocals
    /\ WindowConstructed
    /\ obstacleCostsText \in ObstacleTexts
    /\ pf = NoRun
    /\ util = NoCall

\* what the widgets may hold when Calculate is pressed: every way a file
\* input can be wrong, one grid size, one algorithm
ParseWidgets ==
    { [mapFilePath |-> m, controlsFilePath |-> c, gridWidth |-> 1,
       gridHeight |-> 1, algorithmName |-> "Dijkstra",
       heuristic |-> HEURISTIC_MIN_COST] :
      m \in {"", "missing.omap", "A.omap"}, c \in {"", "missing.omap", "c.omap"} }

NextParse == onCalculatePathClicked(ParseWidgets) \/ runBackendProcessingAsync

SpecParse == InitParse /\ [][NextParse]_vars

\* the main window and its worker
GuiWaypointLists ==
    [w \in GridWidths, h \in GridHeights |->
        { None,
          Some(<< [x |-> 0, y |-> 0], [x |-> 0, y |-> 0] >>),
          Some(<< [x |-> 0, y |-> 0], [x |-> 1, y |-> 0] >>) }]
GuiSegmentPaths == [n \in CellCounts |-> { << >>, << 0, 1 >> }]
GuiScans ==
    [map \in MapFiles |->
        { ScanOf(TRUE, Some(RefPoint), Some(RawBounds(map, TRUE)), Some(10000)) }]
NoThrows == {}
GuiFetchResults == {FetchedElevationData}
GuiConvertResults == {a \in ConvertResults : a.success}
NoInvalidNormalizations == {}

\* the file inputs, with the map and the grid size varying between runs, and
\* a map path left empty or naming no file
GuiWidgets ==
    { [mapFilePath |-> m, controlsFilePath |-> "c.omap", gridWidth |-> w,
       gridHeight |-> h, algorithmName |-> a,
       heuristic |-> HEURISTIC_MIN_COST] :
      m \in MapFiles, w \in GridWidths, h \in GridHeights, a \in GuiAlgorithms }
    \cup
    { [mapFilePath |-> m, controlsFilePath |-> c, gridWidth |-> 1,
       gridHeight |-> 1, algorithmName |-> "Dijkstra",
       heuristic |-> HEURISTIC_MIN_COST] :
      m \in {"", "missing.omap"}, c \in {"c.omap"} }

InitGui ==
    /\ params = IdleParams
    /\ result = NewResult(IdleParams)
    /\ pc = "idle"
    /\ FreshLocals
    /\ WindowConstructed
    /\ obstacleCostsText = DefaultCostsText
    /\ pf = NoRun
    /\ util = NoCall

NextGui ==
    \/ onCalculatePathClicked(GuiWidgets)
    \/ runBackendProcessingAsync
    \/ WorkerLambda
    \/ onCalculationFinished
    \/ StoreResults
    \/ closeEvent
    \/ triggerExport
    \/ savePathToOmap
    \/ main
    \/ EditObstacleCosts(GuiTexts)
    \/ ScanMap(NoThrows, GuiScans)
    \/ ProcessGrid(NoThrows, NoInvalidNormalizations)
    \/ ExtractWaypoints(NoThrows, GuiWaypointLists)
    \/ PrepareElevation(NoThrows, GuiFetchResults, GuiConvertResults)
    \/ Segment(NoThrows, GuiSegmentPaths)
    \/ Finalize
    \/ CatchException

SpecGui == InitGui /\ [][NextGui]_vars

\* ------------------------------------------------ find_path (spec 4.6)
\* entry: an endpoint out of bounds or impassable is NotFound; otherwise
\* the start cell opens with g = 0
find_path ==
    /\ pf.phase = "called"
    /\ IF \/ ~inBounds(pf.grid, pf.start.x, pf.start.y)
          \/ ~inBounds(pf.grid, pf.end.x, pf.end.y)
          \/ Impassable(pf.grid, pf.start)
          \/ Impassable(pf.grid, pf.end)
       THEN pf' = [pf EXCEPT !.phase = "NotFound"]
       ELSE pf' = [pf EXCEPT !.phase = "search",
                             !.state[StartCell(pf)] = "Open",
                             !.g[StartCell(pf)] = 0,
                             !.f[StartCell(pf)] = Heuristic(pf, StartCell(pf)),
                             !.parent[StartCell(pf)] = StartCell(pf),
                             !.seq[StartCell(pf)] = 1,
                             !.n = 1]
    /\ UNCHANGED << beVars, guiVars, saved, util >>

\* the run after the expansion of frontier cell c: c is popped and closed;
\* the goal ends the run with its path, any other cell relaxes its neighbours
Expanded(run, c) ==
    [run EXCEPT
       !.phase = IF c = GoalCell(run) THEN "Found" ELSE "search",
       !.state = [s \in Cells(run.grid) |->
                    IF s = c THEN "Closed"
                    ELSE IF c # GoalCell(run) /\ Relaxes(run, c, s)
                    THEN "Open" ELSE run.state[s]],
       !.g = [s \in Cells(run.grid) |->
                IF s = c THEN PoppedG(run, c)
                ELSE IF c # GoalCell(run) /\ Relaxes(run, c, s)
                THEN OfferedG(run, c, s) ELSE run.g[s]],
       !.f = [s \in Cells(run.grid) |->
                IF s # c /\ c # GoalCell(run) /\ Relaxes(run, c, s)
                THEN OfferedG(run, c, s) + Heuristic(run, s)
                ELSE run.f[s]],
       !.parent = [s \in Cells(run.grid) |->
                IF s = c THEN PoppedParent(run, c)
                ELSE IF c # GoalCell(run) /\ Relaxes(run, c, s)
                THEN OfferedParent(run, c, s) ELSE run.parent[s]],
       !.seq = [s \in Cells(run.grid) |->
                IF s # c /\ c # GoalCell(run) /\ Relaxes(run, c, s)
                THEN run.n + Direction(run.grid, c, s) ELSE run.seq[s]],
       !.n = run.n + NUM_DIRECTIONS,
       !.popped = Append(run.popped,
                         [cell |-> c, g |-> PoppedG(run, c), f |-> run.f[c]]),
       !.path = IF c = GoalCell(run)
                THEN PathTo([run.parent EXCEPT ![c] = PoppedParent(run, c)],
                            c, Cardinality(Cells(run.grid)))
                ELSE << >>]

\* one expansion: of the best frontier cell
Expand ==
    /\ pf.phase = "search"
    /\ OpenCells(pf) # {}
    /\ \E c \in {Best(pf)} : pf' = Expanded(pf, c)
    /\ UNCHANGED << beVars, guiVars, saved, util >>

\* the open set is empty: NotFound
Exhaust ==
    /\ pf.phase = "search"
    /\ OpenCells(pf) = {}
    /\ pf' = [pf EXCEPT !.phase = "NotFound"]
    /\ UNCHANGED << beVars, guiVars, saved, util >>

\* ------------------------------------------- the pathfinders on their own
\* grids of MaxSearchWidth x MaxSearchHeight cells: one terrain everywhere
\* but for at most MaxRough cells; 0.6 and 1.11 are multipliers of the
\* default obstacle costs
Paved == Finite(FALSE, 6, -1)
Rough == Finite(FALSE, 111, -2)
SearchCells == 0..(MaxSearchWidth * MaxSearchHeight - 1)
RoughMaps ==
    UNION { [S -> {Rough, MinusOne}] :
            S \in {T \in SUBSET SearchCells : Cardinality(T) <= MaxRough} }
SearchGrids ==
    { [width |-> MaxSearchWidth, height |-> MaxSearchHeight,
       cells |-> [c \in SearchCells |-> IF c \in DOMAIN r THEN r[c] ELSE b]] :
      b \in {One, Paved}, r \in RoughMaps }
\* the algorithms with the heuristic types they are run with
SearchAlgorithms ==
    ({"Dijkstra", "BFS"} \X {HEURISTIC_MIN_COST})
    \cup ({"Optimized A*"} \X {HEURISTIC_EUCLIDEAN, HEURISTIC_DIAGONAL,
                              HEURISTIC_MANHATTAN, HEURISTIC_MIN_COST,
                              HeuristicNotApplicable})
    \cup ({"Theta*", "Lazy Theta*"} \X {HEURISTIC_EUCLIDEAN})
SearchStarts == {[x |-> 0, y |-> 0], [x |-> 1, y |-> 0]}
SearchEnds ==
    {[x |-> px, y |-> py] : px \in 0..MaxSearchWidth, py \in 0..(MaxSearchHeight - 1)}
\* every request at one metre per cell, and A* on the uniform grids at half
\* a metre and at two metres per cell
SearchRequests ==
    { [algorithm |-> a[1], heuristic_type |-> a[2], grid |-> gr,
       log_cell_m |-> 1000, start |-> s, end |-> e] :
      a \in SearchAlgorithms, gr \in SearchGrids, s \in SearchStarts,
      e \in SearchEnds }
    \cup
    { [algorithm |-> "Optimized A*", heuristic_type |-> t, grid |-> gr,
       log_cell_m |-> l, start |-> [x |-> 0, y |-> 0], end |-> e] :
      t \in {HEURISTIC_EUCLIDEAN, HEURISTIC_DIAGONAL, HEURISTIC_MANHATTAN,
             HEURISTIC_MIN_COST, HeuristicNotApplicable},
      gr \in {x \in SearchGrids : \A c \in SearchCells : x.cells[c] = x.cells[0]},
      l \in {500, 2000}, e \in SearchEnds }

InitSearch ==
    /\ params = IdleParams
    /\ result = NewResult(IdleParams)
    /\ pc = "idle"
    /\ FreshLocals
    /\ WindowConstructed
    /\ obstacleCostsText = DefaultCostsText
    /\ pf \in {NewRun(r) : r \in SearchRequests}
    /\ util = NoCall

NextSearch == find_path \/ Expand \/ Exhaust

SpecSearch == InitSearch /\ [][NextSearch]_vars

\* the runs at one metre per cell on the paved grids with impassable cells;
\* a run is a sequential loop, which takes its next step
InitSearchFair ==
    /\ InitSearch
    /\ pf.log_cell_m = 1000
    /\ \A c \in SearchCells : pf.grid.cells[c] \in {Paved, MinusOne}

SpecSearchFair == InitSearchFair /\ [][NextSearch]_vars /\ WF_vars(NextSearch)

\* ------------------------------------------- PathfindingUtils, call by call
\* the largest int
IntMax == 2147483647

\* an unsigned 32-bit value as its two 16-bit halves
HalvesOf(n) == [hi |-> n \div 65536, lo |-> n % 65536]

AddHalves(a, b) ==
    [hi |-> (a.hi + b.hi + (a.lo + b.lo) \div 65536) % 65536,
     lo |-> (a.lo + b.lo) % 65536]

\* the low 32 bits of the product of two non-negative ints
MulHalves(y, w) ==
    LET yh == y \div 65536
        yl == y % 65536
        wh == w \div 65536
        wl == w % 65536
        t == (yl \div 256) * wl
    IN  AddHalves(
            AddHalves([hi |-> (t \div 256) % 65536, lo |-> (t % 256) * 256],
                      HalvesOf((yl % 256) * wl)),
            [hi |-> (((yh * wl) % 65536) + ((yl * wh) % 65536)) % 65536, lo |-> 0])

\* the int with the bits of an unsigned 32-bit value
AsInt(h) ==
    IF h.hi >= 32768 THEN (h.hi - 65536) * 65536 + h.lo
    ELSE h.hi * 65536 + h.lo

\* y * width + x does not fit an int (x, y >= 0)
Overflows(x, y, width) == width > 0 /\ y > (IntMax - x) \div width

\* what a build makes of toIndex: the value, or on signed overflow either the
\* wrapped value or a trap
IndexOutcomes(x, y, width) ==
    IF Overflows(x, y, width)
    THEN {[phase |-> "indexed",
           index |-> AsInt(AddHalves(MulHalves(y, width), HalvesOf(x)))],
          [phase |-> "trapped", index |-> 0]}
    ELSE {[phase |-> "indexed", index |-> toIndex(x, y, width)]}

\* the columns, rows and widths examined
BigColumn == 65535
BigRows == {32767, 32768, 65536, IntMax}
BigWidth == 65536

\* ---- single precision: a float v that is 0 or at least 1/2 is the integer
\* v * 2^24
Q24 == 16777216

\* costs[0], costs[4] and the factor 0.8f as floats
ONE_F == 16777216
SQRT2_F == 23726566
MIN_COST_F == 13421773

RECURSIVE UlpFrom(_, _)
UlpFrom(q, u) == IF q \div u < Q24 THEN u ELSE UlpFrom(q, 2 * u)
\* the unit in the last place of q: the power of two u with q < 2^24 * u
Ulp(q) == UlpFrom(q, 1)

\* q + r / 2^24, 0 <= r < 2^24, rounded to 24 significant bits, ties to even
RoundNearestEven(q, r) ==
    LET u == Ulp(q)
        t == q \div u
        low == q % u
        above == IF u = 1 THEN r > Q24 \div 2
                 ELSE 2 * low > u \/ (2 * low = u /\ r > 0)
        tie == IF u = 1 THEN r = Q24 \div 2 ELSE 2 * low = u /\ r = 0
    IN  IF above \/ (tie /\ t % 2 = 1) THEN (t + 1) * u ELSE t * u

\* the product of two floats before rounding: q + r / 2^24
Times(a, d) ==
    LET ah == a \div 4096
        al == a % 4096
        dh == d \div 4096
        dl == d % 4096
        m == ah * dl + al * dh
        low == (m % 4096) * 4096 + al * dl
    IN  [q |-> ah * dh + m \div 4096 + low \div Q24, r |-> low % Q24]

\* t * t as hi * 2^24 + lo
Square(t) ==
    LET th == t \div 4096
        tl == t % 4096
        mid == 2 * th * tl
        low == (mid % 4096) * 4096 + tl * tl
    IN  [hi |-> th * th + mid \div 4096 + low \div Q24, lo |-> low % Q24]

RECURSIVE SignificandBetween(_, _, _)
\* the largest t of lo..hi with t * t <= n * 2^24
SignificandBetween(n, lo, hi) ==
    IF lo >= hi THEN lo
    ELSE CHOOSE r \in {IF \E sq \in {Square(mid)} :
                              sq.hi < n \/ (sq.hi = n /\ sq.lo = 0)
                       THEN SignificandBetween(n, mid, hi)
                       ELSE SignificandBetween(n, lo, mid - 1) :
                       mid \in {(lo + hi + 1) \div 2}} : TRUE

RECURSIVE Binade(_, _, _)
\* the power of four p with p <= n < 4 p, and twice its root
Binade(n, p, u) == IF n < 4 * p THEN [p |-> p, u |-> u] ELSE Binade(n, 4 * p, 2 * u)

\* sqrtf of a whole number, correctly rounded
sqrtf32(n) ==
    IF n = 0 THEN 0
    ELSE LET b == Binade(n, 1, 2)
             target == n * ((Q24 \div 4) \div b.p)
             t == CHOOSE r \in {SignificandBetween(m, Q24 \div 2, Q24 - 1) :
                                m \in {target}} : TRUE
             sq == Square(t)
             rest == (target - sq.hi) * Q24 - sq.lo
         IN  IF rest > t THEN (t + 1) * b.u ELSE t * b.u

\* internal::euclidean_distance
Float32Euclidean(x1, y1, x2, y2) ==
    sqrtf32((x1 - x2) * (x1 - x2) + (y1 - y2) * (y1 - y2))

\* a diagonal distance without its correction term
Float32Sum(x1, y1, x2, y2, contracted) == (fabs(x1 - x2) + fabs(y1 - y2)) * Q24

\* internal::diagonal_distance; a build may contract the multiplication and
\* the addition into one fused operation, rounded once
Float32Diagonal(x1, y1, x2, y2, contracted) ==
    LET dx_h == fabs(x1 - x2)
        dy_h == fabs(y1 - y2)
        sum == RoundNearestEven(Times(ONE_F, (dx_h + dy_h) * Q24).q, 0)
        product == (2 * ONE_F - SQRT2_F) * Min(dx_h, dy_h)
    IN  IF contracted THEN RoundNearestEven(sum - product, 0)
        ELSE RoundNearestEven(sum - RoundNearestEven(product, 0), 0)

\* internal::manhattan_distance
Float32Manhattan(x1, y1, x2, y2) == (fabs(x1 - x2) + fabs(y1 - y2)) * Q24

\* calculate_heuristic in single precision
Float32Heuristic(x1, y1, x2, y2, heuristic_type, contracted) ==
    CASE heuristic_type = HEURISTIC_DIAGONAL ->
            Float32Diagonal(x1, y1, x2, y2, contracted)
      [] heuristic_type = HEURISTIC_MANHATTAN -> Float32Manhattan(x1, y1, x2, y2)
      [] heuristic_type = HEURISTIC_MIN_COST ->
            LET p == Times(Float32Diagonal(x1, y1, x2, y2, contracted), MIN_COST_F)
            IN  RoundNearestEven(p.q, p.r)
      [] OTHER -> Float32Euclidean(x1, y1, x2, y2)

\* the four estimates of one pair of points
Estimates(x1, y1, x2, y2, contracted) ==
    [euclidean |-> Float32Heuristic(x1, y1, x2, y2, HEURISTIC_EUCLIDEAN, contracted),
     diagonal |-> Float32Heuristic(x1, y1, x2, y2, HEURISTIC_DIAGONAL, contracted),
     manhattan |-> Float32Heuristic(x1, y1, x2, y2, HEURISTIC_MANHATTAN, contracted),
     min_cost |-> Float32Heuristic(x1, y1, x2, y2, HEURISTIC_MIN_COST, contracted)]

NoEstimates == [euclidean |-> 0, diagonal |-> 0, manhattan |-> 0, min_cost |-> 0]

\* the pairs of points examined, for a build that contracts and one that
\* does not
HeuristicCalls ==
    { [phase |-> "points", x1 |-> x1, y1 |-> y1, x2 |-> x2, y2 |-> y2,
       contracted |-> c, there |-> NoEstimates, back |-> NoEstimates] :
      x1 \in 0..MaxOffset, y1 \in 0..MaxOffset, x2 \in {0, 1}, y2 \in {0, 1},
      c \in BOOLEAN }

IndexCalls ==
    { [phase |-> "cell", x |-> x, y |-> y, width |-> w, index |-> 0,
       coords |-> [x |-> 0, y |-> 0]] :
      x \in (0..MaxCell) \cup {BigColumn},
      y \in (0..MaxCell) \cup BigRows,
      w \in (-1..(MaxCell + 1)) \cup {BigWidth} }

InitUtil ==
    /\ params = IdleParams
    /\ result = NewResult(IdleParams)
    /\ pc = "idle"
    /\ FreshLocals
    /\ WindowConstructed
    /\ obstacleCostsText = DefaultCostsText
    /\ pf = NoRun
    /\ util \in IndexCalls \cup HeuristicCalls

\* toIndex(x, y, width)
ToIndex ==
    /\ util.phase = "cell"
    /\ \E o \in IndexOutcomes(util.x, util.y, util.width) :
           util' = [util EXCEPT !.phase = o.phase, !.index = o.index]
    /\ UNCHANGED << beVars, guiVars, pf, saved >>

\* toCoords(index, width, x, y)
ToCoords ==
    /\ util.phase = "indexed"
    /\ util' = [util EXCEPT !.phase = "decoded",
                            !.coords = toCoords(util.index, util.width)]
    /\ UNCHANGED << beVars, guiVars, pf, saved >>

\* calculate_heuristic, each type, from the first point to the second and back
Estimate ==
    /\ util.phase = "points"
    /\ util' = [util EXCEPT
                   !.phase = "estimated",
                   !.there = Estimates(util.x1, util.y1, util.x2, util.y2,
                                       util.contracted),
                   !.back = Estimates(util.x2, util.y2, util.x1, util.y1,
                                      util.contracted)]
    /\ UNCHANGED << beVars, guiVars, pf, saved >>

NextUtil == ToIndex \/ ToCoords \/ Estimate

SpecUtil == InitUtil /\ [][NextUtil]_vars


\* ------------------------------------------------------------- properties
\* the backend call has returned
Done == pc = "done"

\* the index of a waypoint's cell in the grid of the call
idx(p) == toIndex(p.x, p.y, logical_grid_opt.val.width)

\* C1: Segment abort.  A pathfinder call that returned an empty path is the
\* last pathfinder call of the run, and the result then returned has
\* success = false, a message naming that segment and its two endpoints, and
\* an empty fullPathIndices, whatever the earlier segments had accumulated.
C1_SegmentAbort ==
    \A k \in 1..Len(calls) :
        calls[k].path = << >> =>
            /\ k = Len(calls)
            /\ pc \in {"finalize", "done"}
            /\ Done =>
                /\ result.success = FALSE
                /\ result.errorMessage.text # ""
                /\ result.errorMessage.args =
                       << calls[k].segment + 1, calls[k].start.x, calls[k].start.y,
                          calls[k].end.x, calls[k].end.y >>
                /\ result.fullPathIndices = << >>

\* the second segment is not found after the first had produced indices
C1_Witness ==
    /\ Done
    /\ Len(calls) = 2
    /\ calls[2].path = << >>
    /\ full_path_indices # << >>
    /\ result.fullPathIndices = << >>

\* a step of the loop in which a pathfinder returned a path
SegmentReturned ==
    /\ pc = "loop"
    /\ Len(calls') = Len(calls) + 1
    /\ Last(calls').path # Thrown
    /\ Last(calls').path # << >>

\* the path of segment k (0-based) of a finished run: what the pathfinder
\* returned for it, or the one-element path of a segment with identical
\* endpoints
SegmentPathOf(k) ==
    IF waypoints[k + 1] = waypoints[k + 2] THEN << idx(waypoints[k + 1]) >>
    ELSE LET c == CHOOSE c \in 1..Len(calls) : calls[c].segment = k
         IN  calls[c].path

RECURSIVE SumOfJoins(_)
\* the sum over segments 0..n-1 of len(segment) - 1
SumOfJoins(n) ==
    IF n = 0 THEN 0 ELSE SumOfJoins(n - 1) + Len(SegmentPathOf(n - 1)) - 1

\* every segment of a successful run starts at idx(w_i) and ends at idx(w_i+1)
WellFormedSegments ==
    \A k \in 0..(Len(waypoints) - 2) :
        /\ Head(SegmentPathOf(k)) = idx(waypoints[k + 1])
        /\ Last(SegmentPathOf(k)) = idx(waypoints[k + 2])

SucceededInLoop == Done /\ result.success /\ exc = NoExc /\ Len(waypoints) >= 2

\* a segment path that starts at the last index of the running result is
\* appended without its first index
C2_JoinStep ==
    (/\ SegmentReturned
     /\ full_path_indices # << >>
     /\ Head(Last(calls').path) = Last(full_path_indices))
    => full_path_indices' = full_path_indices \o Tail(Last(calls').path)

C2_Length ==
    (SucceededInLoop /\ WellFormedSegments)
    => Len(result.fullPathIndices) = 1 + SumOfJoins(Len(waypoints) - 1)

\* C2: Join de-duplication.  When the first index of a segment's path equals
\* the last index of the running result, that index is stored once; and when
\* every segment succeeds with a path from idx(w_i) to idx(w_i+1),
\* fullPathIndices has length 1 + the sum over the segments of
\* (len(segment) - 1), a segment with identical endpoints counting as a
\* one-element path.
C2_JoinDeduplication == [][C2_JoinStep]_vars /\ []C2_Length

\* three waypoints, two found segments joined at the middle waypoint
C2_Witness ==
    /\ SucceededInLoop
    /\ WellFormedSegments
    /\ Len(calls) = 2
    /\ Len(result.fullPathIndices) = 3

\* C3: Mismatched join.  A non-empty segment path, of any length, whose first
\* index differs from the last index of the non-empty running result is
\* appended whole and a warning is emitted for it.
C3_MismatchedJoin ==
    [][(/\ SegmentReturned
        /\ full_path_indices # << >>
        /\ Head(Last(calls').path) # Last(full_path_indices))
       => /\ full_path_indices' = full_path_indices \o Last(calls').path
          /\ warnings' = Append(warnings, i + 1)]_vars

\* the run reached the segment loop and returned from it
ReturnedFromLoop == Done /\ exc = NoExc /\ Len(waypoints) >= 2

\* waypoint p is out of the grid's bounds or on an impassable cell
InvalidWaypoint(p) ==
    \/ ~inBounds(logical_grid_opt.val, p.x, p.y)
    \/ Impassable(logical_grid_opt.val, p)

\* the one error of the loop that is about the position of a waypoint
ReportsInvalidWaypoint ==
    /\ result.success = FALSE
    /\ result.errorMessage.text =
           "Segment %1 start/end point (%2,%3 -> %4,%5) out of grid bounds (WxH: %6x%7)."

\* C4: Invalid waypoints.  When some waypoint of the list is out of the
\* grid's bounds or lies on an impassable cell, the run fails with an error
\* about that waypoint, not with success and not with "path not found".
C4_InvalidWaypoint ==
    (ReturnedFromLoop /\ \E k \in 1..Len(waypoints) : InvalidWaypoint(waypoints[k]))
    => ReportsInvalidWaypoint

\* no real elevation is available: no fetch was attempted, or the fetch failed
\* or returned no data
NoFetchedElevation ==
    \/ ~canFetchElevation
    \/ ~elevationResult.success
    \/ ~hasData(elevationResult)

\* the uniform 100.0 field of the call's grid size and cell resolution
UniformElevation ==
    DummyElevation(params.desiredGridWidth, params.desiredGridHeight,
                   LogCellResolution(normInfo_opt.val, params.desiredGridWidth,
                                     mapScaleFromXml))

\* C5: Elevation fallback.  Whenever no real elevation is available the
\* elevation parameters are the uniform 100.0 field (grid-sized, cell size the
\* logical cell resolution, zero offsets), the pathfinders are called with it,
\* usedDummyElevation is true and the missing data does not abort the run;
\* usedDummyElevation is false only when the fetch succeeded with data.
C5_ElevationFallback ==
    /\ exc # StdException("bad optional access")
    /\ pc \in {"loop", "finalize"} =>
          /\ NoFetchedElevation =>
                /\ elev = UniformElevation
                /\ result.usedDummyElevation
                /\ \A k \in 1..Len(calls) : calls[k].elevation = UniformElevation
          /\ ~result.usedDummyElevation => ~NoFetchedElevation

\* C8: Errors are returned, never thrown.  No exception leaves
\* processAndFindPath, and a call that met an exception or a failed segment
\* returns success = false with a non-empty errorMessage; success is returned
\* only by a call that met neither.
C8_ErrorsReturned ==
    /\ pc # "escaped"
    /\ Done =>
          /\ (exc # NoExc \/ ~path_found_for_all_segments) =>
                 (result.success = FALSE /\ result.errorMessage.text # "")
          /\ result.success => (exc = NoExc /\ path_found_for_all_segments)

\* an exception that is no std::exception was thrown and the call returned
C8_Witness ==
    /\ Done
    /\ exc = UnknownException
    /\ result.success = FALSE
    /\ result.errorMessage.text = "Backend Error: An unknown exception occurred."

\* the grid the processor generates from a request's own inputs
Regenerated(p) ==
    GenerateGrid(p.mapFilePath, p.desiredGridWidth, p.desiredGridHeight,
                 p.obstacleCosts)

\* a request that passes a grid for reuse passes the grid its inputs give
PureReuse(p) ==
    (p.reuseGridIfPossible /\ p.existingGrid.has)
    => p.existingGrid.val = Regenerated(p)

\* C6: Grid reuse is a pure cache.  Every Calculate request that passes a
\* previously computed grid for reuse passes the grid that regenerating it
\* from the request's map, size and obstacle costs would give, and the run
\* works on that grid.
C6_GridReuseIsPureCache ==
    /\ \A k \in 1..Len(guiStack) :
           guiStack[k].handler = "runBackendProcessingAsync"
           => PureReuse(guiStack[k].params)
    /\ pc # "idle" => PureReuse(params)
    /\ (pc \in {"waypoints", "elevation", "loop", "finalize"} /\ logical_grid_opt.has)
       => logical_grid_opt.val = Regenerated(params)

\* the window was closed while its calculation was in progress
CancellationRequested == window = "closed" /\ m_impl.isCalculating

\* C7: Cancellation.  Once the window has been closed during a calculation,
\* the running processAndFindPath starts no further segment: no pathfinder
\* is invoked any more.
C7_Cancellation ==
    [][CancellationRequested => Len(calls') <= Len(calls)]_vars

\* a multiplier of the obstacle configuration: finite and positive, or -1
ValidMultiplier(v) ==
    \/ v.cls = "finite" /\ ~v.neg /\ v.mant > 0
    \/ v = MinusOne

\* lines of the text, read by what the configuration format says
Blank(l) == \A k \in 1..Len(l) : l[k] \in IsSpace
Comment(l) ==
    \E k \in 1..Len(l) : l[k] = "#" /\ \A j \in 1..(k - 1) : l[j] \in IsSpace
HasColon(l) == \E k \in 1..Len(l) : l[k] = ":"
FirstColon(l) == CHOOSE k \in 1..Len(l) : l[k] = ":" /\ \A j \in 1..(k - 1) : l[j] # ":"
\* s without the characters of set at its two ends
Strip(s, set) ==
    LET keep == {k \in 1..Len(s) : s[k] \notin set} IN
    IF keep = {} THEN << >>
    ELSE SubSeq(s, CHOOSE k \in keep : \A j \in keep : k <= j,
                   CHOOSE k \in keep : \A j \in keep : k >= j)
CodeOf(l) ==
    Strip(Strip(SubSeq(Strip(l, IsSpace), 1, FirstColon(Strip(l, IsSpace)) - 1),
                IsSpace), {" ", "\t"})
ValueOf(l) ==
    Strip(SubSeq(Strip(l, IsSpace), FirstColon(Strip(l, IsSpace)) + 1,
                 Len(Strip(l, IsSpace))), {" ", "\t"})
Ignored(l) == Blank(l) \/ Comment(l)
BadLine(l) ==
    /\ ~Ignored(l)
    /\ \/ ~HasColon(l)
       \/ CodeOf(l) = << >>
       \/ stof(ValueOf(l)).status # "ok"

\* the characters a decimal float literal is written with
NumericChars == Digits \cup {"+", "-", ".", "e", "E"}

\* the parse of the text in the obstacle-cost editor
Parsed == parseObstacleCosts(obstacleCostsText)
Lines == getlines(obstacleCostsText)
KeptLines == {k \in 1..Len(Lines) : ~Ignored(Lines[k])}

\* the multipliers of the request Calculate made from the text: those of the
\* queued worker call, or of the call the worker has taken up
RequestCosts ==
    IF guiStack # << >> THEN Last(guiStack).params.obstacleCosts
    ELSE params.obstacleCosts

\* C9: Obstacle config value domain.  Once parseObstacleCosts has returned
\* true and Calculate has made a request from its map, every multiplier of
\* the request is a finite positive float or -1, and no accepted line of the
\* text has anything other than a number after its colon.
C9_ValueDomain ==
    runs > 0 =>
        /\ \A c \in DOMAIN RequestCosts : ValidMultiplier(RequestCosts[c])
        /\ \A k \in KeptLines :
              \A j \in 1..Len(ValueOf(Lines[k])) :
                  ValueOf(Lines[k])[j] \in NumericChars

\* the entry the accepted lines give a code: the value of the last of them
LastLineFor(c) ==
    CHOOSE k \in KeptLines :
        CodeOf(Lines[k]) = c /\ \A j \in KeptLines : CodeOf(Lines[j]) = c => j <= k

\* no calculation was started from this window
NoCalculationStarted ==
    /\ pc = "idle"
    /\ guiStack = << >>
    /\ future = "none"
    /\ m_impl.isCalculating = FALSE
    /\ runs = 0

\* C10: Obstacle config line handling.  parseObstacleCosts returns false
\* exactly when some line that is neither blank nor a comment lacks a colon,
\* has an empty code or has a value std::stof does not convert; otherwise the
\* map holds, for the code of each remaining line stripped of the white space
\* around it, the value of the last such line; and when it returns false,
\* Calculate starts no backend calculation.
C10_LineHandling ==
    /\ Parsed.ok = (\A k \in 1..Len(Lines) : ~BadLine(Lines[k]))
    /\ Parsed.ok =>
          /\ DOMAIN Parsed.configMap = {CodeOf(Lines[k]) : k \in KeptLines}
          /\ \A c \in DOMAIN Parsed.configMap :
                Parsed.configMap[c] = stof(ValueOf(Lines[LastLineFor(c)])).value
    /\ ~Parsed.ok => NoCalculationStarted

\* Calculate was refused for a text whose bad line follows a comment line
C10_Witness ==
    /\ dialog = "Invalid format in Obstacle Costs."
    /\ Len(Lines) >= 2
    /\ Comment(Lines[1])
    /\ Lines[1][1] # "#"
    /\ BadLine(Lines[2])

\* ---------------------------------------------------------- pathfinder claims
MinOf(S) == CHOOSE v \in S : \A w \in S : v <= w

RECURSIVE RelaxCells(_, _, _, _)
\* one more grid edge allowed: the least costs d (a tuple, cell c at c + 1)
\* improved over every edge, for the cells below k
RelaxCells(grid, d, log_cell_m, k) ==
    IF k = 0 THEN << >>
    ELSE Append(RelaxCells(grid, d, log_cell_m, k - 1),
                MinOf({d[k]}
                      \cup {Min(Infinity,
                                d[n + 1]
                                + edge_cost(grid, n, k - 1,
                                            costs[Direction(grid, n, k - 1)],
                                            log_cell_m)) :
                            n \in {m \in Cells(grid) :
                                      Direction(grid, m, k - 1) # 0}}))
RECURSIVE StartCosts(_, _, _)
StartCosts(grid, start, k) ==
    IF k = 0 THEN << >>
    ELSE Append(StartCosts(grid, start, k - 1),
                IF k - 1 = start THEN 0 ELSE Infinity)
RECURSIVE LeastCosts(_, _, _, _)
\* the least cost from start to each cell over paths of at most k grid edges
LeastCosts(grid, start, log_cell_m, k) ==
    IF k = 0 THEN StartCosts(grid, start, Cardinality(Cells(grid)))
    ELSE RelaxCells(grid, LeastCosts(grid, start, log_cell_m, k - 1),
                    log_cell_m, Cardinality(Cells(grid)))
\* the cost of the cheapest path of the run's grid from its start to its goal
LeastCost(run) ==
    LeastCosts(run.grid, StartCell(run), run.log_cell_m,
               Cardinality(Cells(run.grid)))[GoalCell(run) + 1]

RECURSIVE PathCost(_, _, _)
\* the total edge cost of a path of grid edges
PathCost(grid, path, log_cell_m) ==
    IF Len(path) < 2 THEN 0
    ELSE edge_cost(grid, path[1], path[2],
                   costs[Direction(grid, path[1], path[2])], log_cell_m)
         + PathCost(grid, Tail(path), log_cell_m)

\* C11: A* optimality.  A path returned by Dijkstra, or by A* with the
\* Euclidean or the Min-cost heuristic, has the least total edge cost of all
\* paths from the start to the goal: A* returns a path as cheap as Dijkstra's.
C11_AStarOptimality ==
    /\ pf.phase = "Found"
    /\ \/ pf.algorithm = "Dijkstra"
       \/ /\ pf.algorithm = "Optimized A*"
          /\ pf.heuristic_type \in {HEURISTIC_EUCLIDEAN, HEURISTIC_MIN_COST}
    => PathCost(pf.grid, pf.path, pf.log_cell_m) = LeastCost(pf)

\* the spec's heuristic formula for a displacement of (dx_h, dy_h) cells, in
\* thousandths of a metre
HeuristicFormula(heuristic_type, dx_h, dy_h, log_cell_m) ==
    CASE heuristic_type = HEURISTIC_MANHATTAN ->
            ((fabs(dx_h) + fabs(dy_h)) * log_cell_m)
      [] heuristic_type = HEURISTIC_DIAGONAL ->
            (log_cell_m * (1000 * (fabs(dx_h) + fabs(dy_h))
                           + (1414 - 2000) * Min(fabs(dx_h), fabs(dy_h)))) \div 1000
      [] heuristic_type = HEURISTIC_MIN_COST ->
            (8 * ((log_cell_m * (1000 * (fabs(dx_h) + fabs(dy_h))
                                 + (1414 - 2000) * Min(fabs(dx_h), fabs(dy_h))))
                  \div 1000)) \div 10
      [] OTHER -> (sqrtf(dx_h * dx_h + dy_h * dy_h) * log_cell_m) \div 1000

\* C12: Heuristic formulas.  In an informed run on a grid of resolution
\* log_cell_m, the value calculate_heuristic gives for any cell and the goal
\* is the spec formula of its type scaled by log_cell_m, a type outside 0..3
\* counting as Euclidean.
C12_HeuristicFormulas ==
    pf.phase \in {"search", "Found", "NotFound"}
    /\ pf.algorithm \in InformedAlgorithms
    => \A n \in Cells(pf.grid) :
          calculate_heuristic(toCoords(n, pf.grid.width).x,
                              toCoords(n, pf.grid.width).y,
                              pf.end.x, pf.end.y, pf.heuristic_type)
          = HeuristicFormula(pf.heuristic_type,
                             toCoords(n, pf.grid.width).x - pf.end.x,
                             toCoords(n, pf.grid.width).y - pf.end.y,
                             pf.log_cell_m)

\* the same at one metre per cell, where the scale is 1
HeuristicFormulasAtOneMetre ==
    pf.log_cell_m = 1000 => C12_HeuristicFormulas

\* the second of two calls that differ only in params.heuristicType has the
\* same files, grid, waypoints and elevation as the first; its pathfinder,
\* called for the same segment with the same arguments, answers as it
\* answered the first, and may answer anything to other arguments
HeuristicTypes ==
    {HEURISTIC_EUCLIDEAN, HEURISTIC_DIAGONAL, HEURISTIC_MANHATTAN,
     HEURISTIC_MIN_COST, HeuristicNotApplicable}
OtherCall(h) == [params EXCEPT !.heuristicType = h]
\* the arguments of a pathfinder invocation
Arguments(call) ==
    [segment |-> call.segment, algorithm |-> call.algorithm,
     heuristic |-> call.heuristic, start |-> call.start, end |-> call.end,
     elevation |-> call.elevation]
\* the run has entered the pathfinding loop
EnteredLoop == pc \in {"loop", "finalize", "catch", "done"} /\ elev # NoElev
\* the locals at the entry of the loop
LoopEntry ==
    [pc |-> "loop", i |-> 0, full_path_indices |-> << >>,
     path_found_for_all_segments |-> TRUE, errorMsg |-> NoMessage,
     exc |-> NoExc, calls |-> << >>, warnings |-> << >>]
AnswersTo(p, l) ==
    IF \E k \in 1..Len(calls) :
          Arguments(calls[k])
          = Arguments(PathfinderCall(p, l.i, waypoints[l.i + 1],
                                     waypoints[l.i + 2], elev, << >>))
    THEN {IF calls[k].path = Thrown THEN Raises(exc) ELSE Returns(calls[k].path) :
            k \in {j \in 1..Len(calls) : calls[j].segment = l.i}}
    ELSE Answers(ExternalThrows,
                 SegmentPaths[logical_grid_opt.val.width
                              * logical_grid_opt.val.height])
RECURSIVE Replay(_, _)
\* the locals with which the loop of the call with parameters p may end
Replay(p, l) ==
    IF l.pc # "loop" \/ l.i >= Len(waypoints) - 1 THEN {l}
    ELSE UNION {Replay(p, SegmentBody(p, logical_grid_opt.val, waypoints,
                                      elev, l, answer)) :
                  answer \in AnswersTo(p, l)}
\* the result that call returns
ReplayResult(l) ==
    IF l.pc = "catch" THEN CaughtResult(result, l.exc)
    ELSE FinalResult(result, waypoints, l.path_found_for_all_segments,
                     l.full_path_indices, l.errorMsg)

\* C13: Heuristic is ignored by BFS and Dijkstra.  Of two calls that differ
\* only in params.heuristicType and run BFS or Dijkstra, the second invokes
\* the pathfinder with the arguments of the first for every segment, and
\* returns the same success flag and the same fullPathIndices.
C13_HeuristicIgnored ==
    (Done /\ EnteredLoop /\ params.algorithmName \in {"BFS", "Dijkstra"})
    => \A h \in HeuristicTypes :
         \A l \in Replay(OtherCall(h), LoopEntry) :
            /\ Len(l.calls) = Len(calls)
            /\ \A k \in 1..Len(calls) :
                  Arguments(l.calls[k]) = Arguments(calls[k])
            /\ ReplayResult(l).success = result.success
            /\ ReplayResult(l).fullPathIndices = result.fullPathIndices

\* a Dijkstra or BFS call has joined two segments, and so does the call with
\* another heuristic type
C13_Witness ==
    /\ Done /\ EnteredLoop
    /\ params.algorithmName \in {"BFS", "Dijkstra"}
    /\ Len(calls) = 2
    /\ result.success
    /\ Len(result.fullPathIndices) >= 2
    /\ \E h \in HeuristicTypes \ {params.heuristicType} :
          \E l \in Replay(OtherCall(h), LoopEntry) :
             ReplayResult(l).fullPathIndices = result.fullPathIndices

\* C14: Closed algorithm set.  A pathfinder is invoked only under one of the
\* five CPU names; a call with any other algorithm name that has entered the
\* loop, whatever its waypoints, returns success = false, never success =
\* true, and, its waypoints being in bounds, with the message that the
\* algorithm is unsupported or not available.
C14_ClosedAlgorithmSet ==
    /\ \A k \in 1..Len(calls) : calls[k].algorithm \in CpuAlgorithms
    /\ (Done /\ EnteredLoop /\ params.algorithmName \notin CpuAlgorithms)
       => /\ result.success = FALSE
          /\ (\A k \in 1..Len(waypoints) :
                 inBounds(logical_grid_opt.val, waypoints[k].x, waypoints[k].y))
             => result.errorMessage.args
                = << UnsupportedMessage(params.algorithmName) >>

\* the loop is at a segment whose two waypoints are one in-bounds cell
AtIdenticalSegment ==
    /\ pc = "loop"
    /\ i < Len(waypoints) - 1
    /\ waypoints[i + 1] = waypoints[i + 2]
    /\ inBounds(logical_grid_opt.val, waypoints[i + 1].x, waypoints[i + 1].y)

\* C15: Identical endpoints.  A segment whose start and end waypoints are the
\* same in-bounds cell contributes the one-element path [idx(start)]: the
\* step that processes it calls no pathfinder and leaves the running result
\* non-empty, ending with idx(start), the index appended unless the running
\* result ended with it already.
C15_IdenticalEndpoints ==
    [][AtIdenticalSegment
       => /\ full_path_indices' # << >>
          /\ Last(full_path_indices') = idx(waypoints[i + 1])
          /\ full_path_indices' =
               IF full_path_indices # << >>
                  /\ Last(full_path_indices) = idx(waypoints[i + 1])
               THEN full_path_indices
               ELSE Append(full_path_indices, idx(waypoints[i + 1]))
          /\ i' = i + 1
          /\ calls' = calls
          /\ pc' = "loop"]_vars

\* two segments of identical endpoints at one cell have left one index
C15_Witness ==
    /\ Done /\ result.success
    /\ Len(waypoints) = 3
    /\ waypoints[1] = waypoints[2] /\ waypoints[2] = waypoints[3]
    /\ result.fullPathIndices = << idx(waypoints[1]) >>

\* the indices of the waypoints, in their order
WaypointIndices == [k \in 1..Len(waypoints) |-> idx(waypoints[k])]
RECURSIVE IsSubsequence(_, _)
\* sub is full with some elements left out
IsSubsequence(sub, full) ==
    IF sub = << >> THEN TRUE
    ELSE IF full = << >> THEN FALSE
    ELSE IF Head(sub) = Head(full) THEN IsSubsequence(Tail(sub), Tail(full))
    ELSE IsSubsequence(sub, Tail(full))
RECURSIVE WithoutRepeats(_)
\* q with every run of equal consecutive elements made one element
WithoutRepeats(q) ==
    IF Len(q) <= 1 THEN q
    ELSE IF q[1] = q[2] THEN WithoutRepeats(Tail(q))
    ELSE << q[1] >> \o WithoutRepeats(Tail(q))

\* C16: Waypoints are visited in order.  When the call returns success = true
\* for waypoints w_0..w_k and every pathfinder call returned a path from its
\* start to its end, fullPathIndices begins with idx(w_0), ends with idx(w_k)
\* and contains idx(w_0), ..., idx(w_k) as a subsequence in that order.
C16_WaypointsInOrder ==
    (SucceededInLoop /\ WellFormedSegments)
    => /\ result.fullPathIndices # << >>
       /\ Head(result.fullPathIndices) = idx(waypoints[1])
       /\ Last(result.fullPathIndices) = idx(waypoints[Len(waypoints)])
       /\ IsSubsequence(WaypointIndices, result.fullPathIndices)

\* C16 as amended: the same, with consecutive equal waypoints counted once
\* in the subsequence.
C16_WaypointsInOrderOnce ==
    (SucceededInLoop /\ WellFormedSegments)
    => /\ result.fullPathIndices # << >>
       /\ Head(result.fullPathIndices) = idx(waypoints[1])
       /\ Last(result.fullPathIndices) = idx(waypoints[Len(waypoints)])
       /\ IsSubsequence(WithoutRepeats(WaypointIndices), result.fullPathIndices)

\* a successful run of well-formed segments over three waypoints, the last
\* two of them equal, the first on another cell
C16_Witness ==
    /\ SucceededInLoop /\ WellFormedSegments
    /\ Len(waypoints) = 3
    /\ waypoints[1] # waypoints[2]
    /\ waypoints[2] = waypoints[3]
    /\ Len(result.fullPathIndices) >= 2

\* waypoint k (1-based) lies in the grid
WaypointInBounds(k) ==
    inBounds(logical_grid_opt.val, waypoints[k].x, waypoints[k].y)
\* the loop is at a segment with an endpoint out of bounds
AtOutOfBoundsSegment ==
    /\ EnteredLoop
    /\ i < Len(waypoints) - 1
    /\ ~WaypointInBounds(i + 1) \/ ~WaypointInBounds(i + 2)
\* every pathfinder was invoked with a start and an end in bounds
CalledInBounds ==
    \A k \in 1..Len(calls) :
        /\ inBounds(logical_grid_opt.val, calls[k].start.x, calls[k].start.y)
        /\ inBounds(logical_grid_opt.val, calls[k].end.x, calls[k].end.y)
\* a step of the loop that forms an index for its segment, by toIndex or in a
\* pathfinder, does so for endpoints in bounds
IndexedInBounds ==
    (pc = "loop" /\ i < Len(waypoints) - 1
     /\ (i' # i \/ calls' # calls \/ full_path_indices' # full_path_indices))
    => WaypointInBounds(i + 1) /\ WaypointInBounds(i + 2)
\* the step at a segment out of bounds stops the loop and forms no index
StopsOutOfBounds ==
    (pc = "loop" /\ AtOutOfBoundsSegment)
    => /\ pc' = "finalize"
       /\ path_found_for_all_segments' = FALSE
       /\ i' = i /\ calls' = calls
       /\ full_path_indices' = full_path_indices

\* C20: Bounds before indexing.  toIndex is called, and a pathfinder invoked,
\* only with start and end points in the grid's bounds; a segment with an
\* endpoint out of bounds stops the loop before any index is formed for it,
\* and the call returns success = false and an empty fullPathIndices.
C20_BoundsBeforeIndexing ==
    /\ [](EnteredLoop => CalledInBounds)
    /\ [][IndexedInBounds]_vars
    /\ [][StopsOutOfBounds]_vars
    /\ []((Done /\ exc = NoExc /\ AtOutOfBoundsSegment)
          => result.success = FALSE /\ result.fullPathIndices = << >>)

\* the second segment is out of bounds after the first had produced indices
C20_Witness ==
    /\ Done /\ exc = NoExc
    /\ AtOutOfBoundsSegment
    /\ i = 1
    /\ full_path_indices # << >>
    /\ result.success = FALSE
    /\ result.fullPathIndices = << >>

\* the moves of a cell's state over one step of a run
LifeCycleMoves ==
    { << "Unseen", "Unseen" >>, << "Unseen", "Open" >>, << "Open", "Open" >>,
      << "Open", "Closed" >>, << "Closed", "Closed" >> }
\* no cell is popped twice
PoppedOnce ==
    pf.phase \in {"search", "Found", "NotFound"}
    => \A j, k \in 1..Len(pf.popped) : pf.popped[j].cell = pf.popped[k].cell => j = k
\* a step of a run moves every cell along the life cycle, closes exactly the
\* cell it pops, enters an open cell anew only at a strictly lower g and
\* leaves every closed cell as it is
LifeCycleStep ==
    pf.phase = "search" =>
        \A c \in Cells(pf.grid) :
            /\ << pf.state[c], pf'.state[c] >> \in LifeCycleMoves
            /\ pf.state[c] = "Open" /\ pf'.state[c] = "Closed"
               => Len(pf'.popped) = Len(pf.popped) + 1
                  /\ pf'.popped[Len(pf'.popped)].cell = c
            /\ /\ pf.state[c] = "Open" /\ pf'.state[c] = "Open"
               /\ << pf'.g[c], pf'.parent[c], pf'.seq[c] >>
                  # << pf.g[c], pf.parent[c], pf.seq[c] >>
               => pf'.g[c] < pf.g[c]
            /\ pf.state[c] = "Closed"
               => pf'.g[c] = pf.g[c] /\ pf'.parent[c] = pf.parent[c]

\* C17: Pathfinder cell life cycle.  In every run of every pathfinder a cell
\* only moves Unseen -> Open, Open -> Open on a strictly improved g and
\* Open -> Closed on its pop; a closed cell is never re-opened nor popped
\* again; and no step raises the g score of a cell.
C17_CellLifeCycle ==
    /\ [][LifeCycleStep]_vars
    /\ []PoppedOnce
    /\ [][pf.phase = "search"
           => \A c \in Cells(pf.grid) : pf'.g[c] <= pf.g[c]]_vars

\* C17 as amended: the same, but that the pop of a cell by Lazy Theta* may
\* raise the g of that cell, when its assumed parent is found occluded.
C17_CellLifeCycleButLazyRepair ==
    /\ [][LifeCycleStep]_vars
    /\ []PoppedOnce
    /\ [][pf.phase = "search"
           => \A c \in Cells(pf.grid) :
                 \/ pf'.g[c] <= pf.g[c]
                 \/ /\ pf.algorithm = "Lazy Theta*"
                    /\ pf.state[c] = "Open" /\ pf'.state[c] = "Closed"
                    /\ ~line_of_sight(pf.grid, pf.parent[c], c)]_vars

\* a Lazy Theta* run has popped a cell at a g above the g of its key, and
\* has closed three cells and left another open
C17_Witness ==
    /\ pf.phase = "Found"
    /\ pf.algorithm = "Lazy Theta*"
    /\ Len(pf.popped) >= 3
    /\ \E c \in Cells(pf.grid) : pf.state[c] = "Open"
    /\ \E k \in 1..Len(pf.popped) :
          pf.popped[k].g + Heuristic(pf, pf.popped[k].cell) > pf.popped[k].f

\* the run is over
Terminated == pf.phase \in {"Found", "NotFound"}
\* a run ends on the pop of the goal, with a path from the start to the
\* goal, or on the empty open set, with no path
EndsOnGoalOrEmpty ==
    /\ pf.phase = "Found"
       => /\ pf.popped # << >>
          /\ pf.popped[Len(pf.popped)].cell = GoalCell(pf)
          /\ pf.path # << >>
          /\ pf.path[1] = StartCell(pf)
          /\ pf.path[Len(pf.path)] = GoalCell(pf)
    /\ pf.phase = "NotFound" => OpenCells(pf) = {} /\ pf.path = << >>
    /\ pf.phase = "search" => pf.path = << >>
\* what a run has reached, it reached over finite edges
OnlyFiniteEdges ==
    pf.phase \in {"search", "Found", "NotFound"}
    => \A c \in Cells(pf.grid) :
          pf.state[c] # "Unseen"
          => /\ ~Blocked(pf.grid, c)
             /\ pf.g[c] < Infinity
             /\ ~Blocked(pf.grid, pf.parent[c])
\* every step of a search pops one more cell, of which there are finitely many
OnePopAStep ==
    pf.phase = "search" => Len(pf'.popped) = Len(pf.popped) + 1 \/ pf'.phase = "NotFound"

\* C18: Pathfinder termination.  Every run of every pathfinder terminates;
\* it ends either on the pop of the goal, returning a path, or on the empty
\* open set, returning no path; and no edge of infinite cost is relaxed.
C18_Termination ==
    /\ <>Terminated
    /\ []EndsOnGoalOrEmpty
    /\ []OnlyFiniteEdges
    /\ [][OnePopAStep]_vars
    /\ [](pf.phase \in {"search", "Found", "NotFound"}
          => Len(pf.popped) <= Cardinality(Cells(pf.grid)))

\* a run over a grid with an impassable cell is over after three pops or
\* more: with a path of three cells or more, or with no path
C18_Witness ==
    /\ Terminated
    /\ Len(pf.popped) >= 3
    /\ \E c \in Cells(pf.grid) : Blocked(pf.grid, c)
    /\ pf.phase = "Found" => Len(pf.path) >= 3

\* h never overestimates: at no cell is it above the least cost to the goal
Admissible(run) ==
    \A n \in Cells(run.grid) :
        Heuristic(run, n)
        <= LeastCosts(run.grid, GoalCell(run), run.log_cell_m,
                      Cardinality(Cells(run.grid)))[n + 1]

\* C19: Pop order.  In a Dijkstra run the g scores of successively popped
\* cells are non-decreasing; in an A* run with an admissible heuristic the
\* keys f of successively popped cells are non-decreasing.
C19_PopOrder ==
    /\ pf.phase \in {"search", "Found", "NotFound"} /\ pf.algorithm = "Dijkstra"
       => \A k \in 1..(Len(pf.popped) - 1) : pf.popped[k].g <= pf.popped[k + 1].g
    /\ pf.phase \in {"search", "Found", "NotFound"}
       /\ pf.algorithm = "Optimized A*" /\ Len(pf.popped) >= 2
       /\ inBounds(pf.grid, pf.end.x, pf.end.y)
       /\ Admissible(pf)
       => \A k \in 1..(Len(pf.popped) - 1) : pf.popped[k].f <= pf.popped[k + 1].f

\* h is consistent: over no finite grid edge does it fall by more than the
\* edge costs, and it is 0 at the goal
Consistent(run) ==
    /\ Heuristic(run, GoalCell(run)) = 0
    /\ \A a, b \in Cells(run.grid) :
          Direction(run.grid, a, b) # 0 /\ StepCost(run, a, b) < Infinity
          => Heuristic(run, a) <= StepCost(run, a, b) + Heuristic(run, b)

\* C19 as amended: in a Dijkstra run the g scores of successively popped
\* cells are non-decreasing; in an A* run with a consistent heuristic the
\* keys f of successively popped cells are non-decreasing.
C19_PopOrderConsistent ==
    /\ pf.phase \in {"search", "Found", "NotFound"} /\ pf.algorithm = "Dijkstra"
       => \A k \in 1..(Len(pf.popped) - 1) : pf.popped[k].g <= pf.popped[k + 1].g
    /\ pf.phase \in {"search", "Found", "NotFound"}
       /\ pf.algorithm = "Optimized A*" /\ Len(pf.popped) >= 2
       /\ inBounds(pf.grid, pf.end.x, pf.end.y)
       /\ Consistent(pf)
       => \A k \in 1..(Len(pf.popped) - 1) : pf.popped[k].f <= pf.popped[k + 1].f

\* an A* run with a consistent heuristic has popped three cells at rising keys
C19_Witness ==
    /\ pf.phase = "Found"
    /\ pf.algorithm = "Optimized A*"
    /\ Consistent(pf)
    /\ Len(pf.popped) >= 3
    /\ pf.popped[1].f < pf.popped[Len(pf.popped)].f
    /\ \E c \in Cells(pf.grid) : pf.grid.cells[c] = Rough

\* ------------------------------------------------------------------ C21
\* the cell of a call lies on a grid of the call's width
InBoundsCell == util.width >= 1 /\ 0 <= util.x /\ util.x < util.width /\ util.y >= 0

\* the index is y * width + x
RowMajor ==
    /\ util.phase # "trapped"
    /\ util.index >= 0
    /\ util.index \div util.width = util.y
    /\ util.index % util.width = util.x

IndexCall == util.phase \in {"cell", "indexed", "decoded", "trapped"}

RoundTrip ==
    /\ util.phase \in {"indexed", "decoded", "trapped"} /\ InBoundsCell => RowMajor
    /\ util.phase = "decoded" /\ InBoundsCell =>
           util.coords = [x |-> util.x, y |-> util.y]
    /\ util.phase = "decoded" /\ util.width <= 0 =>
           util.coords = [x |-> -1, y |-> -1]

\* C21 as stated: for every width W >= 1 and every cell with 0 <= x < W and
\* y >= 0, toIndex is y * W + x and toCoords gives the cell back; for W <= 0
\* toCoords gives (-1, -1).
C21_IndexRoundTrip == IndexCall => RoundTrip

\* C21, amended: the same for the cells whose index y * W + x fits an int;
\* on the narrow grids examined, equal indices mean equal cells.
C21_IndexRoundTripInRange ==
    /\ IndexCall /\ ~Overflows(util.x, util.y, util.width) => RoundTrip
    /\ util.phase = "decoded" /\ InBoundsCell /\ util.width <= MaxCell + 1 =>
           \A x1, x2 \in 0..(util.width - 1) : \A y1, y2 \in 0..MaxCell :
               ~Overflows(x1, y1, util.width) /\ ~Overflows(x2, y2, util.width)
               /\ toIndex(x1, y1, util.width) = toIndex(x2, y2, util.width)
               => toCoords(toIndex(x1, y1, util.width), util.width)
                      = [x |-> x2, y |-> y2]

\* a cell far down a wide grid is given back
C21_Witness ==
    /\ util.phase = "decoded"
    /\ InBoundsCell
    /\ util.y = 32767 /\ util.width = BigWidth /\ util.x = BigColumn
    /\ util.coords = [x |-> BigColumn, y |-> 32767]

\* ------------------------------------------------------------------ C22
\* the handlers suspended in processEvents
Suspended(handler) == {k \in 1..Len(guiStack) : guiStack[k].handler = handler}

\* the last result returned has been handled by onCalculationFinished
Handled == pc = "done" /\ future = "delivered" /\ Suspended("onCalculationFinished") = {}

\* C22: Failure clears the export.  Once onCalculationFinished has handled a
\* result with success = false, lastCalculatedPathIndices is empty and the
\* Export button is disabled, no export is under way, and whatever was saved
\* before was a non-empty path; the button is never enabled without a path.
C22_FailureClearsExport ==
    /\ Handled /\ ~result.success =>
           /\ m_impl.lastCalculatedPathIndices = << >>
           /\ ~m_impl.exportButtonEnabled
           /\ Suspended("triggerExport") = {}
    /\ m_impl.exportButtonEnabled => m_impl.lastCalculatedPathIndices # << >>
    /\ Suspended("triggerExport") # {} => m_impl.lastCalculatedPathIndices # << >>
    /\ \A k \in 1..Len(saved) : saved[k].pathIndices # << >>

\* a failed calculation was handled after a successful one
C22_Witness ==
    /\ Handled
    /\ ~result.success
    /\ runs = 2
    /\ m_impl.lastCalculatedPathIndices = << >>
    /\ dialog = "Calculation Error"

\* ------------------------------------------------------------------ C23
\* C23: The worker and the window.  In every interleaving, including the user
\* closing the window and confirming while a calculation runs, the worker
\* does not read the Impl after the MainWindow is destroyed, and the result of
\* such a calculation is not handled by the closed window.
C23_WorkerReadsLiveImpl ==
    [][/\ (window = "destroyed" /\ pc = "queued") => pc' = "queued"
       /\ (window # "open" /\ future = "finished") => future' = "finished"]_vars

\* ------------------------------------------------------------------ C24
\* a processAndFindPath call is queued or running
InFlight == pc \notin {"idle", "done", "escaped", "crashed"}

\* C24: One calculation at a time.  In every sequence of GUI events (Calculate
\* and Export clicks, finished notifications, events handled re-entrantly in
\* processEvents) a task is handed to the thread pool only when no
\* processAndFindPath call is in flight; isCalculating is true while a call
\* is in flight or about to start, and at most one accepted request or
\* export, each accepted while isCalculating was false, is under way.
C24_OneCalculation ==
    /\ Starting => ~InFlight
    /\ InFlight \/ Starting => m_impl.isCalculating
    /\ Cardinality(Suspended("runBackendProcessingAsync")
                   \cup Suspended("triggerExport")) <= 1
    /\ Starting => future # "finished"

\* a second request was accepted, re-entrantly, while the finished
\* notification of the first was being handled
C24_Witness ==
    /\ Starting
    /\ runs = 2
    /\ Len(guiStack) = 2
    /\ guiStack[1].handler = "onCalculationFinished"

\* ------------------------------------------------------------------ C25
\* C25: Export uses the latest result.  Whatever triggerExport saves is the
\* path, grid and normalization of the most recently finished calculation.
C25_ExportsLatest ==
    [][saved' # saved =>
          /\ pc = "done"
          /\ Last(saved').pathIndices = result.fullPathIndices
          /\ Last(saved').grid = result.processedGrid
          /\ Last(saved').normInfo = result.normalizationInfo]_vars

GuiConfigs == {parseObstacleCosts(t).configMap : t \in GuiTexts}

\* the requests accepted and not yet answered
Requests ==
    {guiStack[k].params : k \in Suspended("runBackendProcessingAsync")}
    \cup (IF InFlight THEN {params} ELSE {})

\* C27: The cached grid matches its key.  Whenever lastProcessedGrid has a
\* value it is a grid generated from currentMapFilePath with dimensions
\* lastGridWidth x lastGridHeight, and every request that reuses a grid
\* passes one whose width and height are the desired ones.
C27_CachedGridMatchesKey ==
    /\ m_impl.lastProcessedGrid.has =>
           \E config \in GuiConfigs :
               m_impl.lastProcessedGrid.val =
                   GenerateGrid(m_impl.currentMapFilePath, m_impl.lastGridWidth,
                                m_impl.lastGridHeight, config)
    /\ \A p \in Requests :
           p.reuseGridIfPossible /\ p.existingGrid.has =>
               /\ p.existingGrid.val.width = p.desiredGridWidth
               /\ p.existingGrid.val.height = p.desiredGridHeight

\* a run reuses the stored grid of a two-cell map
C27_Witness ==
    /\ pc = "waypoints"
    /\ params.reuseGridIfPossible
    /\ params.desiredGridWidth = 2
    /\ logical_grid_opt = m_impl.lastProcessedGrid
    /\ m_impl.lastProcessedGrid.has

\* ------------------------------------------------------------------ C28
\* the files on disk
OnDisk == {"A.omap", "B.omap", "c.omap"}

\* the request about to start is one onCalculatePathClicked may accept
Acceptable ==
    /\ ~m_impl.isCalculating
    /\ parseObstacleCosts(obstacleCostsText).ok
    /\ Last(guiStack').params.mapFilePath \in OnDisk
    /\ Last(guiStack').params.controlsFilePath \in OnDisk

\* C28: A rejected request leaves the state unchanged.  A step that starts no
\* acceptable request (already running, costs that do not parse, a file path
\* empty, a file missing) starts no backend task, and a step that shows one
\* of the rejection messages leaves isCalculating, the stored grid,
\* normalization and path, the map and controls paths, the pending handlers
\* and the worker as they were.
C28_RejectedRequestChangesNothing ==
    [][/\ (Cardinality(Suspended("runBackendProcessingAsync")')
             > Cardinality(Suspended("runBackendProcessingAsync"))) => Acceptable
       /\ (dialog' # dialog /\ dialog' \in RejectionMessages) =>
             /\ m_impl' = m_impl
             /\ guiStack' = guiStack
             /\ pc' = pc /\ future' = future /\ params' = params
             /\ saved' = saved]_vars

\* a request naming a missing map was rejected with a path, grid and
\* normalization in store
C28_Witness ==
    /\ dialog = "Map file not found: "
    /\ m_impl.lastCalculatedPathIndices # << >>
    /\ m_impl.lastProcessedGrid.has
    /\ ~m_impl.isCalculating
    /\ guiStack = << >>

\* ------------------------------------------------------------------ C29
Estimated == util.phase = "estimated"

\* symmetric, zero exactly between equal points, MinCost <= Diagonal <=
\* Manhattan, and Diagonal within a unit in the last place of
\* max + (k - 1) * min, k being costs[4]
OrderedButEuclidean ==
    LET dx_h == fabs(util.x1 - util.x2)
        dy_h == fabs(util.y1 - util.y2)
        h == util.there
        formula == (IF dx_h > dy_h THEN dx_h ELSE dy_h) * Q24
                   + (SQRT2_F - ONE_F) * Min(dx_h, dy_h)
    IN  /\ util.back = h
        /\ \A v \in {h.euclidean, h.diagonal, h.manhattan, h.min_cost} :
               v = 0 <=> (util.x1 = util.x2 /\ util.y1 = util.y2)
        /\ h.min_cost <= h.diagonal
        /\ h.diagonal <= h.manhattan
        /\ h.diagonal - formula < Ulp(h.diagonal)
        /\ formula - h.diagonal < Ulp(h.diagonal)

\* C29 as stated: for all cell pairs calculate_heuristic is symmetric, 0
\* exactly between equal points, MinCost <= Diagonal <= Manhattan and
\* Euclidean <= Diagonal <= Manhattan, Diagonal being
\* max(|dx|,|dy|) + (sqrt2 - 1) * min(|dx|,|dy|).
C29_HeuristicOrdering ==
    Estimated => OrderedButEuclidean /\ util.there.euclidean <= util.there.diagonal

\* C29, amended: the same, with Euclidean <= Diagonal up to one unit in the
\* last place of the Diagonal value.
C29_HeuristicOrderingRounded ==
    Estimated =>
        /\ OrderedButEuclidean
        /\ util.there.euclidean <= util.there.diagonal + Ulp(util.there.diagonal)

\* seven cells along the diagonal, not contracted: Euclidean is the float
\* above Diagonal
C29_Witness ==
    /\ Estimated
    /\ ~util.contracted
    /\ util.x1 - util.x2 = 7 /\ util.y1 - util.y2 = 7
    /\ util.there.euclidean = util.there.diagonal + Ulp(util.there.diagonal)
    /\ util.there.diagonal = 166085952

====
